---- MODULE Spec2Model ----
(***************************************************************************)
(* A model of xdf_merge.py: the address-list map, the binary image, the    *)
(* tuning-definition document, and the pipeline of main():                 *)
(*   merge_data -> XDFParser.parse -> merge_map_into_xdf ->                *)
(*   create_embedded -> json_to_xdf (-> XDFParser.parse again).            *)
(*                                                                         *)
(* Python values are represented as follows.                               *)
(*   text         the characters of a str: a tuple of one-character        *)
(*                strings ("0x2" is <<"0","x","2">>).                      *)
(*   a value      what a dict field or a variable holds, a record          *)
(*                [t, s, n]: Str(text), Num(n) or NoneV.  Equality of two  *)
(*                values is Python's == (a str never equals an int).       *)
(*   list         a tuple.   dict   a record (a function of its keys); a   *)
(*                key with a dot or a blank is written with an underscore  *)
(*                (Embedded.Address is Embedded_Address, "Map Values" is   *)
(*                Map_Values).  A list or an int that may be missing is    *)
(*                <<>> (missing) or <<v>>.                                 *)
(*   an exception the name of its class in the field err of the result.    *)
(***************************************************************************)
EXTENDS Integers, Sequences, FiniteSets, TLC

VARIABLES
    pc,         \* position in the pipeline of main()
    err,        \* class of the exception that ended the run, or "none"
    bindata,    \* the binary image
    map,        \* the address map read by merge_data (map.json)
    map_def,    \* the list merge_data returned (all_maps.json)
    xml,        \* the tuning-definition document given to XDFParser
    xdf_def,    \* the dict parse returned, which merge_map_into_xdf works on
    xdf_in,     \* what xdf_def held when merge_map_into_xdf was last called
    merges,     \* calls of merge_map_into_xdf so far
    embed,      \* EmbeddedData, the list create_embedded returned
    xdf_out,    \* the document json_to_xdf wrote
    xdf_back,   \* the dict parse returned for xdf_out
    lk,         \* the call of lookup_val under check and its outcome
    map_file,   \* the lines of the address-list file given to the loader
    fr,         \* the call of find_result_table under check and its outcome
    uid         \* one call of new_unique_table_id: its tables, its draw, its loop index

vars == <<pc, err, bindata, map, map_def, xml, xdf_def, xdf_in, merges,
          embed, xdf_out, xdf_back, lk, map_file, fr, uid>>

-----------------------------------------------------------------------------
(* Bounds of the model.                                                    *)

MaxMaps == 2        \* map entries after the Start entry
MaxSize == 2        \* largest element count stored in the image block
MaxTables == 2      \* XDFTABLE elements in a document
MaxMerges == 2      \* calls of merge_map_into_xdf in one run
MaxLines == 2       \* lines of an address-list file
MaxCells == 2       \* values and formulas in one call of find_result_table
MaxIdTables == 2    \* tables in the list given to new_unique_table_id

(* Constants of the program.                                               *)

max_table == 256
SmallImage == 8192
BankSize == 4096
AddrLimit == 8192
LowGuard == 256
RandBits == 16

-----------------------------------------------------------------------------
(* Text.                                                                   *)

NoneV == [t |-> "none", s |-> <<>>, n |-> 0]
Str(x) == [t |-> "str", s |-> x, n |-> 0]
Num(k) == [t |-> "int", s |-> <<>>, n |-> k]

IsNone(v) == v.t = "none"
IsInt(v) == v.t = "int"

Nothing == <<>>
Some(v) == <<v>>

Max(a, b) == IF a > b THEN a ELSE b
Min(a, b) == IF a < b THEN a ELSE b

\* dict.get(k), dict.get(k, default), d[k] = v
Get(d, k) == IF k \in DOMAIN d THEN d[k] ELSE NoneV
GetOr(d, k, default) == IF k \in DOMAIN d THEN d[k] ELSE default
Put(d, k, v) == [x \in DOMAIN d \cup {k} |-> IF x = k THEN v ELSE d[x]]

RECURSIVE Concat(_)
Concat(ss) == IF ss = <<>> THEN <<>> ELSE Head(ss) \o Concat(Tail(ss))

HexChars == <<"0","1","2","3","4","5","6","7","8","9","a","b","c","d","e","f">>

RECURSIVE Digits(_, _)
Digits(n, base) ==
    IF n < base THEN <<HexChars[n + 1]>>
    ELSE Digits(n \div base, base) \o <<HexChars[(n % base) + 1]>>

\* hex(n)
Hex(n) == IF n < 0 THEN <<"-","0","x">> \o Digits(-n, 16)
          ELSE <<"0","x">> \o Digits(n, 16)

\* str(n) of an int
StrInt(n) == IF n < 0 THEN <<"-">> \o Digits(-n, 10) ELSE Digits(n, 10)

UpperChar(c) ==
    CASE c = "a" -> "A" [] c = "b" -> "B" [] c = "c" -> "C" [] c = "d" -> "D"
      [] c = "e" -> "E" [] c = "f" -> "F" [] c = "g" -> "G" [] c = "h" -> "H"
      [] c = "i" -> "I" [] c = "j" -> "J" [] c = "k" -> "K" [] c = "l" -> "L"
      [] c = "m" -> "M" [] c = "n" -> "N" [] c = "o" -> "O" [] c = "p" -> "P"
      [] c = "q" -> "Q" [] c = "r" -> "R" [] c = "s" -> "S" [] c = "t" -> "T"
      [] c = "u" -> "U" [] c = "v" -> "V" [] c = "w" -> "W" [] c = "x" -> "X"
      [] c = "y" -> "Y" [] c = "z" -> "Z"
      [] OTHER -> c

\* str.upper()
Upper(s) == [i \in 1..Len(s) |-> UpperChar(s[i])]

DigitVal(c) ==
    CASE c = "0" -> 0 [] c = "1" -> 1 [] c = "2" -> 2 [] c = "3" -> 3
      [] c = "4" -> 4 [] c = "5" -> 5 [] c = "6" -> 6 [] c = "7" -> 7
      [] c = "8" -> 8 [] c = "9" -> 9
      [] c \in {"a", "A"} -> 10 [] c \in {"b", "B"} -> 11
      [] c \in {"c", "C"} -> 12 [] c \in {"d", "D"} -> 13
      [] c \in {"e", "E"} -> 14 [] c \in {"f", "F"} -> 15
      [] OTHER -> 99

RECURSIVE DigitsVal(_, _)
DigitsVal(s, base) ==
    IF s = <<>> THEN 0
    ELSE DigitsVal(SubSeq(s, 1, Len(s) - 1), base) * base + DigitVal(s[Len(s)])

AllDigits(s, base) == s # <<>> /\ \A i \in 1..Len(s) : DigitVal(s[i]) < base

Unsigned(s) == IF s # <<>> /\ s[1] \in {"-", "+"} THEN Tail(s) ELSE s
Negative(s) == s # <<>> /\ s[1] = "-"
Unprefixed(s) ==
    IF Len(s) >= 2 /\ s[1] = "0" /\ s[2] \in {"x", "X"} THEN SubSeq(s, 3, Len(s))
    ELSE s

\* int(s, 16): <<n>>, or <<>> where Python raises ValueError
ParseHex(s) ==
    LET d == Unprefixed(Unsigned(s))
    IN  IF ~AllDigits(d, 16) THEN Nothing
        ELSE Some(IF Negative(s) THEN -DigitsVal(d, 16) ELSE DigitsVal(d, 16))

\* int(s): <<n>>, or <<>> where Python raises ValueError
ParseInt(s) ==
    LET d == Unsigned(s)
    IN  IF ~AllDigits(d, 10) THEN Nothing
        ELSE Some(IF Negative(s) THEN -DigitsVal(d, 10) ELSE DigitsVal(d, 10))

-----------------------------------------------------------------------------
(* The binary image: len bytes, every byte fill except the block bytes     *)
(* that starts at offset at.                                               *)

ByteAt(b, i) ==
    IF i >= b.at /\ i < b.at + Len(b.bytes) THEN b.bytes[i - b.at + 1] ELSE b.fill

\* list(bindata[lo:hi]) with Python's slice rules
PySlice(b, lo, hi) ==
    LET norm(i) == IF i < 0 THEN Max(i + b.len, 0) ELSE Min(i, b.len)
        s == norm(lo)
        e == norm(hi)
    IN  [k \in 1..Max(e - s, 0) |-> ByteAt(b, s + k - 1)]

-----------------------------------------------------------------------------
(* merge_data: the record of every map entry after the first.              *)

T_Start == <<"S","t","a","r","t">>
T_MemoryRefMap == <<"M","e","m","o","r","y","R","e","f","M","a","p">>
T_FixedMap == <<"F","i","x","e","d","M","a","p">>
T_EngineTemp == <<"E","n","g","i","n","e"," ","T","e","m","p">>
T_BatteryVoltage == <<"B","a","t","t","e","r","y"," ","V","o","l","t","a","g","e">>
T_AirTemp == <<"A","i","r"," ","T","e","m","p">>
T_CoolantTemp == <<"C","o","o","l","a","n","t"," ","T","e","m","p">>
T_RPM == <<"R","P","M">>
T_EngineLoad == <<"E","n","g","i","n","e"," ","L","o","a","d">>

\* the match statement on raw_values[0]
ChannelName(code, raw_hex) ==
    CASE code = 3 -> T_EngineTemp
      [] code = 17 -> T_BatteryVoltage
      [] code = 18 -> T_AirTemp
      [] code = 19 -> T_CoolantTemp
      [] code = 55 -> T_RPM
      [] code = 73 -> T_EngineLoad
      [] OTHER -> raw_hex

\* A dict display {k1: v1, k2: v2, ...} given as its <<key, value>> pairs in
\* source order: a key written twice keeps the value written last.
DictDisplay(pairs) ==
    [k \in {pairs[i][1] : i \in 1..Len(pairs)} |->
        LET last == CHOOSE i \in 1..Len(pairs) :
                        /\ pairs[i][1] = k
                        /\ \A j \in (i + 1)..Len(pairs) : pairs[j][1] # k
        IN  pairs[last][2]]

\* the dict `out` of merge_data
OutRecord(entry, msg, XDF_mapaddr, hex_values, headers, map_vals) ==
    DictDisplay(<<
        <<"Addr", entry.Address>>,
        <<"MapType", entry.Type>>,
        <<"Title", entry.Title>>,
        <<"Source", Str(msg)>>,
        <<"XDF_mmedaddr", Str(XDF_mapaddr)>>,
        <<"Source", Str(hex_values[1])>>,
        <<"Size", Str(hex_values[2])>>,
        <<"Header_Values", headers>>,
        <<"Map_Values", map_vals>> >>)

\* A self-describing branch that takes the map values for the headers and
\* the headers for the map values.
SelfDescribingSwapped(b, entry, addr) ==
    LET raw_values == PySlice(b, addr, addr + 2 * max_table + 2)
        size == raw_values[2]
        hex_values == [v \in 1..(2 * size + 2) |-> Hex(raw_values[v])]
    IN  IF Len(raw_values) < 2 \/ Len(raw_values) < 2 * size + 2
        THEN [err |-> "IndexError", out |-> <<>>]
        ELSE [err |-> "none",
              out |-> OutRecord(entry, hex_values[1], Hex(addr + size + 2 - BankSize),
                                hex_values,
                                [i \in 1..size |-> Str(hex_values[size + 2 + i])],
                                [i \in 1..size |-> Str(hex_values[2 + i])])]

\* the self-describing branch: [err, out]
SelfDescribing(b, entry, addr) ==
    LET fixaddr == IF b.len = SmallImage THEN addr ELSE addr - BankSize
        raw_values == PySlice(b, fixaddr, fixaddr + 2 * max_table + 2)
    IN  IF Len(raw_values) < 2 THEN [err |-> "IndexError", out |-> <<>>]
        ELSE
        LET size == raw_values[2]
        IN  IF Len(raw_values) < 2 * size + 2
            THEN [err |-> "IndexError", out |-> <<>>]
            ELSE
            LET hex_values == [v \in 1..(2 * size + 2) |-> Hex(raw_values[v])]
                headers == [i \in 1..size |-> Str(hex_values[2 + i])]
                map_vals == [i \in 1..size |-> Str(hex_values[size + 2 + i])]
                msg == ChannelName(raw_values[1], hex_values[1])
            IN  [err |-> "none",
                 out |-> OutRecord(entry, msg, Hex(addr + size + 2 - BankSize),
                                   hex_values, headers, map_vals)]

\* the other branch: the size is left to the definition document
SizeFromXdf(b, entry, addr) ==
    LET fixaddr == IF b.len = SmallImage THEN addr + BankSize ELSE addr
        hex_values == <<Hex(0), Hex(0)>>
    IN  [err |-> "none",
         out |-> OutRecord(entry, Hex(0), Hex(fixaddr), hex_values, <<>>, <<>>)]

\* one turn of the loop over map[1:]: [err, emit, out]
MapEmit(r) == [err |-> r.err, emit |-> r.err = "none", out |-> r.out]

MapRecordAt(b, entry, addr) ==
    IF addr < AddrLimit
    THEN MapEmit(IF b.len = SmallImage /\ addr > LowGuard /\ entry.Type # Str(T_FixedMap)
                 THEN SelfDescribing(b, entry, addr)
                 ELSE SizeFromXdf(b, entry, addr))
    ELSE [err |-> "none", emit |-> FALSE, out |-> <<>>]

MapRecord(b, entry) ==
    IF entry.Address.t # "str" \/ ParseHex(entry.Address.s) = Nothing
    THEN [err |-> "ValueError", emit |-> FALSE, out |-> <<>>]
    ELSE MapRecordAt(b, entry, ParseHex(entry.Address.s)[1])

\* merge_data(bin_file, map_file): [err, out_def]
RECURSIVE MergeDataFrom(_, _, _, _)
MergeDataTurn(b, m, addr_index, out_def, r) ==
    IF r.err # "none" THEN [err |-> r.err, out_def |-> <<>>]
    ELSE MergeDataFrom(b, m, addr_index + 1,
                       IF r.emit THEN Append(out_def, r.out) ELSE out_def)

MergeDataFrom(b, m, addr_index, out_def) ==
    IF addr_index > Len(m) THEN [err |-> "none", out_def |-> out_def]
    ELSE MergeDataTurn(b, m, addr_index, out_def, MapRecord(b, m[addr_index]))

merge_data(b, m) ==
    IF m = <<>> THEN [err |-> "IndexError", out_def |-> <<>>]
    ELSE MergeDataFrom(b, m, 2, <<>>)

-----------------------------------------------------------------------------
(* lookup_val(bindata, addr, size): [err, val].                            *)

\* lookup_val without the rule for the 8192-byte image
lookup_valBanked(b, addr, size) ==
    LET a == ParseHex(addr)
    IN  IF a = Nothing THEN [err |-> "ValueError", val |-> <<>>]
        ELSE IF ~IsInt(size) THEN [err |-> "TypeError", val |-> <<>>]
        ELSE
        LET addri == a[1] - BankSize
            raw_val == PySlice(b, addri, addri + size.n)
        IN  IF Len(raw_val) < size.n THEN [err |-> "IndexError", val |-> <<>>]
            ELSE [err |-> "none",
                  val |-> [v \in 1..Max(size.n, 0) |-> Str(Hex(raw_val[v]))]]

lookup_val(b, addr, size) ==
    LET a == ParseHex(addr)
    IN  IF a = Nothing THEN [err |-> "ValueError", val |-> <<>>]
        ELSE IF ~IsInt(size) THEN [err |-> "TypeError", val |-> <<>>]
        ELSE
        LET addri == IF b.len = SmallImage THEN a[1] ELSE a[1] - BankSize
            raw_val == PySlice(b, addri, addri + size.n)
        IN  IF Len(raw_val) < size.n THEN [err |-> "IndexError", val |-> <<>>]
            ELSE [err |-> "none",
                  val |-> [v \in 1..Max(size.n, 0) |-> Str(Hex(raw_val[v]))]]

-----------------------------------------------------------------------------
(* The document: an element is [tag, attrib, text, children], attrib a     *)
(* record of texts, text a value, children a tuple of elements.            *)

T_Header == <<"H","e","a","d","e","r">>
T_Table == <<"T","a","b","l","e">>
T_Axis == <<"A","x","i","s">>
T_Scalar == <<"S","c","a","l","a","r">>
T_Constant == <<"C","o","n","s","t","a","n","t">>
T_UnnamedTable == <<"U","n","n","a","m","e","d"," ","T","a","b","l","e">>
T_UnnamedScalar == <<"U","n","n","a","m","e","d"," ","S","c","a","l","a","r">>
T_UnnamedConstant == <<"U","n","n","a","m","e","d"," ","C","o","n","s","t","a","n","t">>
T_NoParent == <<"N","o"," ","P","a","r","e","n","t">>
T_unknown == <<"u","n","k","n","o","w","n">>
T_0x0 == <<"0","x","0">>
T_EmptyDict == <<"{","}">>
T_EmptyList == <<"[","]">>
T_x == <<"x">>
T_y == <<"y">>
T_z == <<"z">>
T_X == <<"X">>
T_1 == <<"1">>
T_NoneText == <<"N","o","n","e">>
T_ExtractedFromBIN == <<"E","x","t","r","a","c","t","e","d"," ","f","r","o","m"," ","B","I","N"," ">>

Elem(tag, attrib, text, children) ==
    [tag |-> tag, attrib |-> attrib, text |-> text, children |-> children]

NoAttrib == <<>>

RECURSIVE Descendants(_)
Descendants(e) ==
    Concat([i \in 1..Len(e.children) |->
               <<e.children[i]>> \o Descendants(e.children[i])])

WithTag(es, tag) == SelectSeq(es, LAMBDA c : c.tag = tag)

\* elem.findall("TAG") and elem.findall(".//TAG")
FindAll(e, tag) == WithTag(e.children, tag)
FindAllDeep(e, tag) == WithTag(Descendants(e), tag)

\* elem.findtext(tag, default)
FindText(e, tag, default) ==
    LET found == FindAll(e, tag)
    IN  IF found = <<>> THEN default
        ELSE IF IsNone(found[1].text) THEN Str(<<>>) ELSE found[1].text

\* elem.get(name, default)
Attr(e, name, default) ==
    IF name \in DOMAIN e.attrib THEN Str(e.attrib[name]) ELSE default

\* bool(v) of a value
Truthy(v) == CASE v.t = "none" -> FALSE [] v.t = "str" -> v.s # <<>> [] OTHER -> v.n # 0

\* str(v) of a value
PyStr(v) == CASE v.t = "none" -> T_NoneText [] v.t = "str" -> v.s [] OTHER -> StrInt(v.n)

_cast_int(val) ==
    IF IsNone(val) \/ ParseInt(val.s) = Nothing THEN NoneV ELSE Num(ParseInt(val.s)[1])

_cast_hex(val) ==
    IF IsNone(val) \/ ParseHex(val.s) = Nothing THEN NoneV ELSE Num(ParseHex(val.s)[1])

_extract_embedded(elem) ==
    LET found == FindAll(elem, "EMBEDDEDDATA")
    IN  IF found = <<>>
        THEN [mmedelementsizebits |-> NoneV, mmedmajorstridebits |-> NoneV,
              mmedminorstridebits |-> NoneV, mmedrowcount |-> NoneV,
              mmedcolcount |-> NoneV, mmedaddress |-> NoneV, mmedtypeflags |-> NoneV]
        ELSE LET ed == found[1]
             IN  [mmedelementsizebits |-> _cast_int(Attr(ed, "mmedelementsizebits", NoneV)),
                  mmedmajorstridebits |-> _cast_int(Attr(ed, "mmedmajorstridebits", NoneV)),
                  mmedminorstridebits |-> _cast_int(Attr(ed, "mmedminorstridebits", NoneV)),
                  mmedrowcount |-> _cast_int(Attr(ed, "mmedrowcount", NoneV)),
                  mmedcolcount |-> _cast_int(Attr(ed, "mmedcolcount", NoneV)),
                  mmedaddress |-> _cast_hex(Attr(ed, "mmedaddress", NoneV)),
                  mmedtypeflags |-> _cast_hex(Attr(ed, "mmedtypeflags", NoneV))]

_extract_base_offset(bo) ==
    LET found == FindAll(bo, "BASEOFFSET")
    IN  IF found = <<>> THEN [offset |-> Num(0), subtract |-> Num(0)]
        ELSE [offset |-> _cast_int(Attr(found[1], "offset", NoneV)),
              subtract |-> _cast_int(Attr(found[1], "subtract", NoneV))]

_extract_defaults(def_in) ==
    LET found == FindAll(def_in, "DEFAULTS")
    IN  IF found = <<>>
        THEN [datasizeinbits |-> Num(0), sigdigits |-> Num(0), outputtype |-> Num(0),
              signed |-> Num(0), lsbfirst |-> Num(0), float |-> Num(0)]
        ELSE [datasizeinbits |-> _cast_int(Attr(found[1], "datasizeinbits", NoneV)),
              sigdigits |-> _cast_int(Attr(found[1], "sigdigits", NoneV)),
              outputtype |-> _cast_int(Attr(found[1], "outputtype", NoneV)),
              signed |-> _cast_int(Attr(found[1], "signed", NoneV)),
              lsbfirst |-> _cast_int(Attr(found[1], "lsbfirst", NoneV)),
              float |-> _cast_int(Attr(found[1], "float", NoneV))]

_extract_region(reg) ==
    LET found == FindAll(reg, "REGION")
    IN  IF found = <<>>
        THEN [type |-> Str(T_0x0), Startaddress |-> Str(T_0x0), Size |-> Str(T_0x0),
              regioncolor |-> Str(T_0x0), regionflags |-> Str(T_0x0),
              name |-> Str(<<>>), desc |-> Str(<<>>)]
        ELSE [type |-> Attr(found[1], "type", NoneV),
              startaddress |-> Attr(found[1], "startaddress", NoneV),
              size |-> Attr(found[1], "size", NoneV),
              regioncolor |-> Attr(found[1], "regioncolor", NoneV),
              regionflags |-> Attr(found[1], "regionflags", NoneV),
              name |-> Attr(found[1], "name", NoneV),
              desc |-> Attr(found[1], "desc", NoneV)]

\* int(row) if row else None, for one attribute of MATH: <<value>>, or <<>>
\* where int() raises ValueError
RowOrCol(m, name) ==
    LET a == Attr(m, name, NoneV)
    IN  IF ~Truthy(a) THEN Some(NoneV)
        ELSE IF ParseInt(a.s) = Nothing THEN Nothing
        ELSE Some(Num(ParseInt(a.s)[1]))

MathEntry(m) ==
    LET v == FindAll(m, "VAR")
    IN  [row |-> RowOrCol(m, "row")[1],
         col |-> RowOrCol(m, "col")[1],
         equation |-> Attr(m, "equation", Str(<<>>)),
         var |-> IF v = <<>> THEN NoneV ELSE Attr(v[1], "id", NoneV)]

MathRaises(elem) ==
    \E m \in {FindAllDeep(elem, "MATH")[i] : i \in 1..Len(FindAllDeep(elem, "MATH"))} :
        RowOrCol(m, "row") = Nothing \/ RowOrCol(m, "col") = Nothing

_extract_math_table(elem) ==
    LET ms == FindAllDeep(elem, "MATH")
    IN  [i \in 1..Len(ms) |-> MathEntry(ms[i])]

-----------------------------------------------------------------------------
(* XDFParser.parse.  The documents of the model hold no CATEGORY, LABEL or *)
(* DALINK element, so cats and labels are {} and dalinks is [], and        *)
(* serialize_field gives their JSON texts "{}" and "[]".                   *)

HeaderRecord(h) ==
    [ObjectType |-> Str(T_Header),
     Flags |-> FindText(h, "flags", NoneV),
     FileVersion |-> FindText(h, "fileversion", NoneV),
     DefTitle |-> FindText(h, "deftitle", NoneV),
     Description |-> FindText(h, "description", NoneV),
     Author |-> FindText(h, "author", NoneV),
     BaseOffset |-> _extract_base_offset(h),
     Defaults |-> _extract_defaults(h),
     Region |-> _extract_region(h),
     Category |-> Str(T_EmptyDict)]

\* catmems: the dict of index -> category over the CATEGORYMEM children
\* that carry an index
CategoryMemOf(t) ==
    LET cs == SelectSeq(FindAll(t, "CATEGORYMEM"),
                        LAMBDA c : Truthy(Attr(c, "index", NoneV)))
    IN  [k \in {cs[i].attrib["index"] : i \in 1..Len(cs)} |->
            LET last == CHOOSE i \in 1..Len(cs) :
                            /\ cs[i].attrib["index"] = k
                            /\ \A j \in (i + 1)..Len(cs) : cs[j].attrib["index"] # k
            IN  Attr(cs[last], "category", NoneV)]

TableRecord(t) ==
    [ObjectType |-> Str(T_Table),
     Title |-> FindText(t, "title", Str(T_UnnamedTable)),
     UniqueID |-> Attr(t, "uniqueid", NoneV),
     Flags |-> FindText(t, "flags", Str(T_0x0)),
     Description |-> FindText(t, "description", NoneV),
     CategoryMem |-> CategoryMemOf(t)]

AxisRecord(t, ax) ==
    LET embedded_ax == _extract_embedded(ax)
        hasaddr == ~IsNone(embedded_ax.mmedaddress)
        addr_str == IF hasaddr THEN Str(Hex(embedded_ax.mmedaddress.n)) ELSE NoneV
        columns == IF ~hasaddr THEN NoneV
                   ELSE IF IsNone(embedded_ax.mmedcolcount) THEN Num(1)
                   ELSE embedded_ax.mmedcolcount
    IN  [ObjectType |-> Str(T_Axis),
         ID |-> Attr(ax, "id", Str(T_unknown)),
         UniqueID |-> Attr(ax, "uniqueid", NoneV),
         Parent |-> FindText(t, "title", NoneV),
         Title |-> FindText(ax, "title", NoneV),
         ParentID |-> Attr(t, "uniqueid", Str(T_NoParent)),
         Address |-> FindText(ax, "address", NoneV),
         Units |-> FindText(ax, "units", NoneV),
         UnitType |-> FindText(ax, "unittype", NoneV),
         OutputType |-> FindText(ax, "outputtype", NoneV),
         IndexCount |-> FindText(ax, "indexcount", NoneV),
         Math_Table |-> _extract_math_table(ax),
         Min |-> FindText(ax, "min", NoneV),
         Max |-> FindText(ax, "max", NoneV),
         IndexSizeBits |-> FindText(ax, "indexsizebits", NoneV),
         DecimalPl |-> FindText(ax, "decimalpl", NoneV),
         DataType |-> FindText(ax, "datatype", NoneV),
         Embedded_ElementSizeBits |-> embedded_ax.mmedelementsizebits,
         Embedded_MajorStrideBits |-> embedded_ax.mmedmajorstridebits,
         Embedded_MinorStrideBits |-> embedded_ax.mmedminorstridebits,
         Embedded_Address |-> addr_str,
         Embedded_Rowcount |-> embedded_ax.mmedrowcount,
         Embedded_Colcount |-> columns,
         Embedded_TypeFlags |-> embedded_ax.mmedtypeflags,
         Labels |-> Str(T_EmptyDict),
         DALINK |-> Str(T_EmptyList)]

\* embedded_ax is the variable the axis loop left behind
ScalarRecord(sc, embedded_ax) ==
    LET embedded == _extract_embedded(sc)
    IN  [ObjectType |-> Str(T_Scalar),
         UniqueID |-> Attr(sc, "uniqueid", NoneV),
         Title |-> FindText(sc, "title", Str(T_UnnamedScalar)),
         Address |-> FindText(sc, "address", NoneV),
         Datatype |-> FindText(sc, "datatype", NoneV),
         Description |-> FindText(sc, "description", NoneV),
         Units |-> FindText(sc, "units", NoneV),
         UnitType |-> FindText(sc, "unittype", NoneV),
         OutputType |-> FindText(sc, "outputtype", NoneV),
         Math_Table |-> _extract_math_table(sc),
         Embedded_ElementSizeBits |-> embedded.mmedelementsizebits,
         Embedded_MajorStrideBits |-> embedded.mmedmajorstridebits,
         Embedded_MinorStrideBits |-> embedded.mmedminorstridebits,
         Embedded_Address |-> embedded_ax.mmedaddress,
         Labels |-> NoneV,
         DALINK |-> NoneV,
         Parent |-> NoneV,
         Size |-> NoneV,
         Value |-> Num(0)]

ConstantRecord(c, embedded_ax) ==
    LET embedded == _extract_embedded(c)
    IN  [UniqueID |-> Attr(c, "uniqueid", NoneV),
         ObjectType |-> Str(T_Constant),
         Title |-> FindText(c, "title", Str(T_UnnamedConstant)),
         Address |-> FindText(c, "address", NoneV),
         Datatype |-> FindText(c, "datatype", NoneV),
         Description |-> FindText(c, "description", NoneV),
         Units |-> FindText(c, "units", NoneV),
         UnitType |-> FindText(c, "unittype", NoneV),
         OutputType |-> FindText(c, "outputtype", NoneV),
         Math_Table |-> _extract_math_table(c),
         Embedded_ElementSizeBits |-> embedded.mmedelementsizebits,
         Embedded_MajorStrideBits |-> embedded.mmedmajorstridebits,
         Embedded_MinorStrideBits |-> embedded.mmedminorstridebits,
         Embedded_Address |-> embedded_ax.mmedaddress,
         Labels |-> NoneV,
         DALINK |-> NoneV,
         Parent |-> NoneV,
         Size |-> Str(T_1),
         Value |-> Num(0)]

\* the <<table, axis>> element pairs the nested loops visit, in order
AxisVisits(root) ==
    LET ts == FindAllDeep(root, "XDFTABLE")
    IN  Concat([i \in 1..Len(ts) |->
                  LET axs == FindAllDeep(ts[i], "XDFAXIS")
                  IN  [j \in 1..Len(axs) |-> <<ts[i], axs[j]>>]])

AnyRaises(es) == \E i \in 1..Len(es) : MathRaises(es[i])

\* the exception parse ends with, in the order the loops meet it
ParseErr(root) ==
    LET visits == AxisVisits(root)
        scalars == FindAllDeep(root, "XDFSCALAR")
        consts == FindAllDeep(root, "XDFCONSTANT")
    IN  IF \E i \in 1..Len(visits) : MathRaises(visits[i][2]) THEN "ValueError"
        ELSE IF visits = <<>> /\ scalars # <<>>
             THEN IF MathRaises(scalars[1]) THEN "ValueError" ELSE "UnboundLocalError"
        ELSE IF AnyRaises(scalars) THEN "ValueError"
        ELSE IF visits = <<>> /\ consts # <<>>
             THEN IF MathRaises(consts[1]) THEN "ValueError" ELSE "UnboundLocalError"
        ELSE IF AnyRaises(consts) THEN "ValueError"
        ELSE "none"

EmptyXdf == [Header |-> <<>>, Tables |-> <<>>, Scalars |-> <<>>,
             Constants |-> <<>>, Axes |-> <<>>]

\* parse(map_def): [err, xdf_def]
ParsedWith(root, e, visits) ==
    LET hs == FindAllDeep(root, "XDFHEADER")
        ts == FindAllDeep(root, "XDFTABLE")
        scalars == FindAllDeep(root, "XDFSCALAR")
        consts == FindAllDeep(root, "XDFCONSTANT")
        embedded_ax == _extract_embedded(visits[Len(visits)][2])
    IN  IF e # "none" THEN [err |-> e, xdf_def |-> EmptyXdf]
        ELSE [err |-> "none",
              xdf_def |->
                [Header |-> [i \in 1..Len(hs) |-> HeaderRecord(hs[i])],
                 Tables |-> [i \in 1..Len(ts) |-> TableRecord(ts[i])],
                 Scalars |-> [i \in 1..Len(scalars) |-> ScalarRecord(scalars[i], embedded_ax)],
                 Constants |-> [i \in 1..Len(consts) |-> ConstantRecord(consts[i], embedded_ax)],
                 Axes |-> [i \in 1..Len(visits) |-> AxisRecord(visits[i][1], visits[i][2])]]]

parse(root) == ParsedWith(root, ParseErr(root), AxisVisits(root))

-----------------------------------------------------------------------------
(* eval_formula, on the formulas the documents of the model carry: the     *)
(* names eval can resolve are X and the lower-case names of math.          *)

F_X == <<"X">>
F_x == <<"x">>
F_XPlus1 == <<"X","+","1">>
F_xTimes2 == <<"x","*","2">>
F_8FloorDivX == <<"8","/","/","X">>
F_XDiv0 == <<"X","/","0">>
F_Y == <<"Y">>
F_sqrt_x == <<"s","q","r","t","(","x",")">>

\* eval(formula, {"__builtins__": None}, allowed_names) with X bound: [err, val]
eval_formula(formula, X) ==
    CASE formula = F_X -> [err |-> "none", val |-> X]
      [] formula = F_XPlus1 -> [err |-> "none", val |-> X + 1]
      [] formula = Upper(F_xTimes2) -> [err |-> "none", val |-> X * 2]
      [] formula = F_8FloorDivX ->
            IF X = 0 THEN [err |-> "ZeroDivisionError", val |-> 0]
            ELSE [err |-> "none", val |-> 8 \div X]
      [] formula = F_XDiv0 -> [err |-> "ZeroDivisionError", val |-> 0]
      [] formula \in {F_Y, F_x, F_xTimes2, F_sqrt_x, Upper(F_sqrt_x)} ->
            \* a name that is not in allowed_names is looked up in
            \* __builtins__, which is None
            [err |-> "TypeError", val |-> 0]
      [] OTHER -> [err |-> "SyntaxError", val |-> 0]

-----------------------------------------------------------------------------
(* The helpers of the merge.  "XDF mmedaddr" and the values read from the  *)
(* image are texts hex() gave, so int(..., 16) of them does not raise.     *)

\* find_val(map_def, val): <<Map Values>> of the first match, or <<>> (None)
find_val(md, val) ==
    LET hit == {i \in 1..Len(md) : Num(ParseHex(md[i].XDF_mmedaddr.s)[1]) = val}
    IN  IF hit = {} THEN Nothing
        ELSE Some(md[CHOOSE i \in hit : \A j \in hit : i <= j].Map_Values)

find_hdr(md, val) ==
    LET hit == {i \in 1..Len(md) : Num(ParseHex(md[i].XDF_mmedaddr.s)[1]) = val}
    IN  IF hit = {} THEN Nothing
        ELSE Some(md[CHOOSE i \in hit : \A j \in hit : i <= j].Header_Values)

\* the X a value is evaluated with: <<n>>, or <<>> where int(vrec, 16) raises
XOf(vrec) == IF IsInt(vrec) THEN Some(vrec.n) ELSE ParseHex(vrec.s)

\* one evaluation inside find_result_table: [err, val]
EvalCell(equation, vrec) ==
    IF XOf(vrec) = Nothing THEN [err |-> "ValueError", val |-> 0]
    ELSE eval_formula(Upper(equation.s), XOf(vrec)[1])

\* index of the first turn of a loop of n turns that a predicate holds for,
\* or n + 1
FirstTurn(n, P(_)) ==
    IF \E i \in 1..n : P(i) THEN CHOOSE i \in 1..n : P(i) /\ \A j \in 1..(i - 1) : ~P(j)
    ELSE n + 1

\* find_result_table(vals, math_table): [err, res], res <<>> for None and
\* <<list>> otherwise; vals and math_table are <<>> for None, else <<list>>
find_result_table(vals, math_table) ==
    IF vals = Nothing \/ vals[1] = <<>> \/ math_table = Nothing \/ math_table[1] = <<>>
    THEN [err |-> "none", res |-> Some(<<>>)]
    ELSE
    LET vs == vals[1]
        mt == math_table[1]
    IN  IF Len(mt) = 1
        THEN \* single equation: res["result"] == ... compares and assigns nothing
             LET stop(i) == IsNone(vs[i]) \/ EvalCell(mt[1].equation, vs[i]).err # "none"
                 k == FirstTurn(Len(vs), stop)
                 res == [result |-> NoneV, row |-> NoneV, col |-> NoneV]
             IN  IF k > Len(vs)
                 THEN [err |-> "none", res |-> Some([i \in 1..Len(vs) |-> res])]
                 ELSE IF IsNone(vs[k]) THEN [err |-> "none", res |-> Nothing]
                 ELSE [err |-> EvalCell(mt[1].equation, vs[k]).err, res |-> Nothing]
        ELSE \* table of equations: for i in range(1, len(math_table))
             LET n == Len(mt) - 1
                 stop(i) == \/ i > Len(vs)
                            \/ IsNone(vs[i])
                            \/ EvalCell(mt[i + 1].equation, vs[i]).err # "none"
                 k == FirstTurn(n, stop)
             IN  IF k > n
                 THEN [err |-> "none",
                       res |-> Some([i \in 1..n |->
                                [result |-> Num(EvalCell(mt[i + 1].equation, vs[i]).val),
                                 col |-> mt[i + 1].col,
                                 row |-> mt[i + 1].row]])]
                 ELSE IF k > Len(vs) THEN [err |-> "IndexError", res |-> Nothing]
                 ELSE IF IsNone(vs[k]) THEN [err |-> "none", res |-> Nothing]
                 ELSE [err |-> EvalCell(mt[k + 1].equation, vs[k]).err, res |-> Nothing]

\* find_map_addr_in_xdf(xdf_def, addr): TRUE when it returns addr, FALSE for None
find_map_addr_in_xdf(axes, addr) ==
    \E i \in 1..Len(axes) :
        /\ axes[i].ID = Str(T_z)
        /\ ~IsNone(axes[i].Embedded_Address)
        /\ ParseHex(axes[i].Embedded_Address.s) = ParseHex(addr.s)

\* find_size(xdf_def, addr)
find_size(axes, addr) ==
    LET hit == {i \in 1..Len(axes) :
                    /\ axes[i].ID = Str(T_z)
                    /\ ~IsNone(axes[i].Embedded_Address)
                    /\ axes[i].Embedded_Address = addr}
        rec == axes[CHOOSE i \in hit : \A j \in hit : i <= j]
    IN  IF hit = {} THEN NoneV
        ELSE IF IsNone(rec.Embedded_Rowcount) THEN rec.Embedded_Colcount
        ELSE IF IsNone(rec.Embedded_Colcount) THEN rec.Embedded_Rowcount
        ELSE Num(rec.Embedded_Rowcount.n * rec.Embedded_Rowcount.n)

\* random.getrandbits(16): the model follows the draws 1 and 2
Draws == {r \in {1, 2} : r < 2 ^ RandBits}

\* new_unique_table_id(xdf_def): the loop ends with the draw r when no table
\* has UniqueID equal to hex(r).upper()
IdAccepted(tables, r) ==
    \A i \in 1..Len(tables) : Get(tables[i], "UniqueID") # Str(Upper(Hex(r)))

new_unique_table_id(r) == Str(Hex(r))

-----------------------------------------------------------------------------
(* merge_map_into_xdf.  parse always gives lists for Axes and Tables, so   *)
(* the first lines of the function change nothing.                         *)

MathTableOf(rec) ==
    IF "Math_Table" \in DOMAIN rec THEN Some(rec.Math_Table) ELSE Nothing

\* the size the resolve pass asks lookup_val for: [err, size, axis]
ResolveSize(axis) ==
    IF IsNone(Get(axis, "Embedded_Colcount"))
    THEN [err |-> "none", size |-> Get(axis, "Embedded_Rowcount"),
          axis |-> Put(axis, "Embedded_Colcount", Num(1))]
    ELSE IF IsNone(Get(axis, "Embedded_Rowcount"))
    THEN [err |-> "TypeError", size |-> NoneV, axis |-> axis]
    ELSE [err |-> "none",
          size |-> Num(axis.Embedded_Rowcount.n * axis.Embedded_Colcount.n),
          axis |-> axis]

\* axis["Results"] = find_result_table(...), r being what the call gave
WithResults(axis, r) ==
    IF r.err # "none" THEN [err |-> r.err, axis |-> axis]
    ELSE [err |-> "none",
          axis |-> Put(axis, "Results", IF r.res = Nothing THEN NoneV ELSE r.res[1])]

\* the branch "if val:": Values and Header come from the map entry
ResolveFromMap(axis, val, hdr) ==
    WithResults(Put(Put(axis, "Values", val[1]), "Header", hdr[1]),
                find_result_table(val, MathTableOf(axis)))

\* the branch "else:" once lookup_val has returned lv
ResolveRead(axis, sz, lv) ==
    IF lv.err # "none" THEN [err |-> lv.err, axis |-> sz.axis]
    ELSE WithResults(Put(sz.axis, "Values", lv.val),
                     find_result_table(Some(lv.val), MathTableOf(axis)))

\* the branch "else:": the values are read from the image
ResolveFromImage(axis, b, addr, sz) ==
    IF sz.err # "none" THEN [err |-> sz.err, axis |-> sz.axis]
    ELSE ResolveRead(axis, sz,
                     lookup_val(b, Hex(ParseHex(addr.s)[1] + BankSize), sz.size))

ResolveWith(axis, b, addr, val, hdr) ==
    IF val # Nothing /\ val[1] # <<>> THEN ResolveFromMap(axis, val, hdr)
    ELSE ResolveFromImage(axis, b, addr, ResolveSize(axis))

\* val1 is find_val(map_def, addr); an empty answer is asked again with
\* int(addr, 16) + 4096
ResolveFound(axis, md, b, addr, val1) ==
    ResolveWith(axis, b, addr,
                IF val1 = Nothing \/ val1[1] = <<>>
                THEN find_val(md, Num(ParseHex(addr.s)[1] + BankSize)) ELSE val1,
                IF val1 = Nothing \/ val1[1] = <<>>
                THEN find_hdr(md, Num(ParseHex(addr.s)[1] + BankSize))
                ELSE find_hdr(md, addr))

\* one turn of the first loop: [err, axis], axis as the turn left it
ResolveAxis(axis, md, b) ==
    IF IsNone(Get(axis, "Embedded_Address")) THEN [err |-> "none", axis |-> axis]
    ELSE ResolveFound(axis, md, b, Get(axis, "Embedded_Address"),
                      find_val(md, Get(axis, "Embedded_Address")))

\* Pass 1 from axis k on: [err, axes], the axes as the loop left them
RECURSIVE ResolvePass(_, _, _, _)
ResolveTurn(axes, k, md, b, r) ==
    IF r.err # "none" THEN [err |-> r.err, axes |-> [axes EXCEPT ![k] = r.axis]]
    ELSE ResolvePass([axes EXCEPT ![k] = r.axis], k + 1, md, b)

ResolvePass(axes, k, md, b) ==
    IF k > Len(axes) THEN [err |-> "none", axes |-> axes]
    ELSE ResolveTurn(axes, k, md, b, ResolveAxis(axes[k], md, b))

new_table(map_entry, table_id) ==
    [Title |-> Get(map_entry, "Title"),
     Description |-> Str(T_ExtractedFromBIN \o map_entry.Addr.s),
     ObjectType |-> Str(T_Table),
     UniqueID |-> table_id,
     Address |-> map_entry.Addr,
     Flags |-> Str(T_0x0),
     CategoryMem |-> <<>>]

x_axis(map_entry, table_id) ==
    [ObjectType |-> Str(T_Axis),
     ID |-> Str(T_x),
     UniqueID |-> Str(T_0x0),
     Parent |-> Get(map_entry, "Title"),
     Title |-> Get(map_entry, "Title"),
     ParentID |-> table_id,
     Address |-> map_entry.Addr,
     Math |-> Str(T_X),
     MathVarID |-> Str(T_X),
     IndexCount |-> Num(1)]

y_axis(map_entry, table_id) ==
    [ObjectType |-> Str(T_Axis),
     ID |-> Str(T_y),
     UniqueID |-> Str(T_0x0),
     Parent |-> Get(map_entry, "Title"),
     Title |-> Get(map_entry, "Title"),
     ParentID |-> table_id,
     Address |-> map_entry.Addr,
     Math |-> Str(T_X),
     MathVarID |-> Str(T_X),
     IndexCount |-> Num(ParseHex(map_entry.Size.s)[1])]

\* a z axis whose row count is squared, as find_size squares it
z_axisSquared(map_entry, table_id) ==
    [ObjectType |-> Str(T_Axis),
     ID |-> Str(T_z),
     Parent |-> Get(map_entry, "Title"),
     Title |-> Get(map_entry, "Title"),
     ParentID |-> table_id,
     Address |-> map_entry.Addr,
     Math |-> Str(T_X),
     MathVarID |-> Str(T_X),
     Min |-> Num(0),
     Max |-> Num(255),
     IndexSizeBits |-> Num(8),
     DecimalPl |-> Num(0),
     Embedded_ElementSizeBits |-> Num(8),
     Embedded_MajorStrideBits |-> Num(0),
     Embedded_MinorStrideBits |-> Num(0),
     Embedded_Address |-> Get(map_entry, "XDF_mmedaddr"),
     Embedded_Colcount |-> Num(1),
     Embedded_Rowcount |-> Num(ParseHex(map_entry.Size.s)[1]
                              * ParseHex(map_entry.Size.s)[1]),
     Values |-> map_entry.Map_Values,
     Header |-> map_entry.Header_Values,
     Results |-> find_result_table(Some(map_entry.Map_Values),
                                   MathTableOf(map_entry)).res[1]]

z_axis(map_entry, table_id) ==
    [ObjectType |-> Str(T_Axis),
     ID |-> Str(T_z),
     Parent |-> Get(map_entry, "Title"),
     Title |-> Get(map_entry, "Title"),
     ParentID |-> table_id,
     Address |-> map_entry.Addr,
     Math |-> Str(T_X),
     MathVarID |-> Str(T_X),
     Min |-> Num(0),
     Max |-> Num(255),
     IndexSizeBits |-> Num(8),
     DecimalPl |-> Num(0),
     Embedded_ElementSizeBits |-> Num(8),
     Embedded_MajorStrideBits |-> Num(0),
     Embedded_MinorStrideBits |-> Num(0),
     Embedded_Address |-> Get(map_entry, "XDF_mmedaddr"),
     Embedded_Colcount |-> Num(1),
     Embedded_Rowcount |-> Num(ParseHex(map_entry.Size.s)[1]),
     Values |-> map_entry.Map_Values,
     Header |-> map_entry.Header_Values,
     Results |-> find_result_table(Some(map_entry.Map_Values),
                                   MathTableOf(map_entry)).res[1]]

\* A second loop that adds a table for every map entry with an address.
UnmatchedAll(axes, map_entry) == ~IsNone(Get(map_entry, "Addr"))

\* whether the second loop adds a table for a map entry
Unmatched(axes, map_entry) ==
    /\ ~IsNone(Get(map_entry, "Addr"))
    /\ ~find_map_addr_in_xdf(axes, map_entry.Addr)

\* Pass 2 from map entry k on, the draw rs[k] being the one
\* new_unique_table_id returns for entry k: [ok, tables, axes_new], ok
\* FALSE when the loop of new_unique_table_id would not end with that draw.
\* axes is xdf_def["Axes"], which the pass reads and does not extend.
RECURSIVE DiscoverPass(_, _, _, _, _, _)
DiscoverPass(axes, md, k, tables, axes_new, rs) ==
    IF k > Len(md) THEN [ok |-> TRUE, tables |-> tables, axes_new |-> axes_new]
    ELSE IF ~Unmatched(axes, md[k])
    THEN DiscoverPass(axes, md, k + 1, tables, axes_new, rs)
    ELSE IF ~IdAccepted(tables, rs[k])
    THEN [ok |-> FALSE, tables |-> tables, axes_new |-> axes_new]
    ELSE LET table_id == new_unique_table_id(rs[k])
         IN  DiscoverPass(axes, md, k + 1,
                          Append(tables, new_table(md[k], table_id)),
                          axes_new \o <<x_axis(md[k], table_id),
                                        y_axis(md[k], table_id),
                                        z_axis(md[k], table_id)>>,
                          rs)

\* merge_map_into_xdf(xdf_def, map_def, bindata) with the draws rs:
\* [err, ok, xdf_def], xdf_def being the dict passed in as the call left it
MergeDiscovered(xd, p2) ==
    [err |-> "none", ok |-> p2.ok,
     xdf_def |-> [xd EXCEPT !.Axes = p2.axes_new, !.Tables = p2.tables]]

MergeResolved(xd, md, rs, p1) ==
    IF p1.err # "none"
    THEN [err |-> p1.err, ok |-> TRUE, xdf_def |-> [xd EXCEPT !.Axes = p1.axes]]
    ELSE MergeDiscovered(xd, DiscoverPass(p1.axes, md, 1, xd.Tables, p1.axes, rs))

merge_map_into_xdf(xd, md, b, rs) ==
    MergeResolved(xd, md, rs, ResolvePass(xd.Axes, 1, md, b))

-----------------------------------------------------------------------------
(* create_embedded and json_to_xdf.  The list goes through json.dump and   *)
(* json.load on its way; they give back equal values for the str, int,     *)
(* None, list and str-keyed dict values the records hold.                  *)

create_embedded(xd) ==
    xd.Header \o xd.Tables \o xd.Axes \o xd.Constants \o xd.Scalars

T_version == <<"1",".","8","0">>

Leaf(tag, text) == Elem(tag, NoAttrib, text, <<>>)

\* {k: str(v) for k, v in d.items()}
StrItems(d) == [k \in DOMAIN d |-> PyStr(d[k])]

\* the items of a dict with text keys, as a list
RECURSIVE ItemsOf(_)
ItemsOf(d) ==
    IF DOMAIN d = {} THEN <<>>
    ELSE LET k == CHOOSE x \in DOMAIN d : TRUE
         IN  <<<<k, d[k]>>>> \o ItemsOf([x \in DOMAIN d \ {k} |-> d[x]])

\* the XDFHEADER block, written from data[0] whatever record that is
HeaderBlock(header_data) ==
    LET base == GetOr(header_data, "BaseOffset", <<>>)
        defaults == GetOr(header_data, "Defaults", <<>>)
        region == GetOr(header_data, "Region", <<>>)
    IN  Elem("XDFHEADER", NoAttrib, NoneV, <<
            Leaf("flags", Str(PyStr(GetOr(header_data, "Flags", Str(T_0x0))))),
            Leaf("fileversion", Str(PyStr(GetOr(header_data, "FileVersion", Str(<<>>))))),
            Leaf("deftitle", Str(PyStr(GetOr(header_data, "DefTitle", Str(<<>>))))),
            Leaf("description", Str(PyStr(GetOr(header_data, "Description", Str(<<>>))))),
            Leaf("author", Str(PyStr(GetOr(header_data, "Author", Str(<<>>))))),
            Leaf("baseoffset", Str(PyStr(GetOr(base, "offset", Str(<<>>))))),
            Leaf("subtract", Str(PyStr(GetOr(base, "subtract", Str(<<>>))))),
            Elem("DEFAULTS", StrItems(defaults), NoneV, <<>>),
            Elem("REGION", StrItems(region), NoneV, <<>>) >>)

\* the MATH element of one Math_Table entry
MathElem(entry) ==
    LET keys == {k \in {"row", "col"} : ~IsNone(Get(entry, k))}
                \cup {k \in {"equation"} : Truthy(Get(entry, k))}
        attrs == [k \in keys |-> PyStr(entry[k])]
    IN  Elem("MATH", attrs, NoneV,
             IF Truthy(Get(entry, "var"))
             THEN <<Elem("VAR", [id |-> entry.var.s], NoneV, <<>>)>>
             ELSE <<>>)

AxisTags == <<"Units", "IndexCount", "DecimalPl", "Min", "Max", "OutputType",
              "DataType", "UnitType">>

\* tag.lower()
LowerTag(tag) ==
    CASE tag = "Units" -> "units" [] tag = "IndexCount" -> "indexcount"
      [] tag = "DecimalPl" -> "decimalpl" [] tag = "Min" -> "min"
      [] tag = "Max" -> "max" [] tag = "OutputType" -> "outputtype"
      [] tag = "DataType" -> "datatype" [] tag = "UnitType" -> "unittype"

\* the XDFAXIS element of one record matched to a table
AxisElem(axis) ==
    LET emb == Elem("EMBEDDEDDATA",
                    [mmedaddress |-> PyStr(GetOr(axis, "Embedded_Address", Str(<<>>))),
                     mmedelementsizebits |->
                         PyStr(GetOr(axis, "Embedded_ElementSizeBits", Str(<<>>))),
                     mmedmajorstridebits |->
                         PyStr(GetOr(axis, "Embedded_MajorStrideBits", Str(<<>>))),
                     mmedminorstridebits |->
                         PyStr(GetOr(axis, "Embedded_MinorStrideBits", Str(<<>>))),
                     mmedrowcount |-> PyStr(GetOr(axis, "Embedded_Rowcount", Str(<<>>))),
                     mmedcolcount |-> PyStr(GetOr(axis, "Embedded_Colcount", Str(<<>>)))],
                    NoneV, <<>>)
        tags == SelectSeq(AxisTags, LAMBDA tag : Truthy(Get(axis, tag)))
        math_table == IF "Math_Table" \in DOMAIN axis THEN axis.Math_Table ELSE <<>>
    IN  Elem("XDFAXIS",
             [id |-> GetOr(axis, "ID", Str(<<>>)).s,
              uniqueid |-> PyStr(GetOr(axis, "UniqueID", Str(T_0x0)))],
             NoneV,
             <<emb>>
             \o [i \in 1..Len(tags) |-> Leaf(LowerTag(tags[i]), Str(PyStr(axis[tags[i]])))]
             \o [i \in 1..Len(math_table) |-> MathElem(math_table[i])])

\* the records json_to_xdf puts inside the block of a table record
AxesOfTable(data, item) ==
    SelectSeq(data, LAMBDA a : Get(a, "ParentID") = Get(item, "UniqueID"))

\* the XDFTABLE block of one table record
TableBlock(data, item) ==
    LET catmems == ItemsOf(GetOr(item, "CategoryMem", <<>>))
        axes == AxesOfTable(data, item)
    IN  Elem("XDFTABLE",
             [uniqueid |-> PyStr(GetOr(item, "UniqueID", Str(T_0x0))),
              flags |-> PyStr(GetOr(item, "Flags", Str(T_0x0)))],
             NoneV,
             <<Leaf("title", GetOr(item, "Title", Str(<<>>))),
               Leaf("description", GetOr(item, "Description", Str(<<>>)))>>
             \o [i \in 1..Len(catmems) |->
                    Elem("categorymem",
                         [index |-> catmems[i][1], category |-> catmems[i][2].s],
                         NoneV, <<>>)]
             \o [i \in 1..Len(axes) |-> AxisElem(axes[i])])

\* the records the loop over data[1:] writes a table block for
TablesWritten(data) ==
    SelectSeq(Tail(data), LAMBDA item : Get(item, "ObjectType") = Str(T_Table))

\* tree is bound inside the loop over the axes of a table, so it is bound
\* at the end when some table block got an axis
TreeBound(data) ==
    \E i \in 1..Len(TablesWritten(data)) :
        AxesOfTable(data, TablesWritten(data)[i]) # <<>>

\* json_to_xdf(json_path, xdf_path): [err, xdf], xdf the XDFORMAT element of
\* the file written
json_to_xdf(data) ==
    IF data = <<>> THEN [err |-> "IndexError", xdf |-> <<>>]
    ELSE IF ~TreeBound(data) THEN [err |-> "UnboundLocalError", xdf |-> <<>>]
    ELSE [err |-> "none",
          xdf |-> Elem("XDFORMAT", [version |-> T_version], NoneV,
                       <<HeaderBlock(data[1])>>
                       \o [i \in 1..Len(TablesWritten(data)) |->
                              TableBlock(data, TablesWritten(data)[i])])]

-----------------------------------------------------------------------------
(* The inputs the model follows.                                           *)

\* Images: the block <<code, n, h1..hn, m1..mn>> at offset 0x200.
BlockAt == 2 * LowGuard
HeaderByte(i) == 16 + i
MapByte(i) == 32 + i
Block(code, n) ==
    <<code, n>> \o [i \in 1..n |-> HeaderByte(i)] \o [i \in 1..n |-> MapByte(i)]

Image(len, fill, code, n) ==
    [len |-> len, fill |-> fill, at |-> BlockAt, bytes |-> Block(code, n)]

Images ==
    {Image(SmallImage, 0, 55, n) : n \in 0..MaxSize}
    \cup {Image(SmallImage, 1, 77, 1), Image(BankSize, 0, 73, MaxSize)}

\* Map entries, as extract_values_from_bin leaves them
MapEntry(type, title, address) ==
    [Address |-> Str(address), Type |-> Str(type), Title |-> Str(title)]

StartEntry ==
    [Address |-> Str(Hex(256)), Type |-> Str(T_Start), Title |-> Str(<<"S">>),
     Description |-> Str(<<"S","t","a","r","t"," ","o","f"," ","M","a","p","s">>)]

EntryKinds ==
    <<MapEntry(T_MemoryRefMap, <<"A">>, Hex(BlockAt)),
      MapEntry(T_FixedMap, <<"B">>, Hex(BlockAt)),
      MapEntry(T_MemoryRefMap, <<"C">>, Hex(768)),
      MapEntry(T_MemoryRefMap, <<"F">>, Hex(768)),
      MapEntry(T_MemoryRefMap, <<"D">>, Hex(AddrLimit - 1)),
      MapEntry(T_MemoryRefMap, <<"E">>, Hex(AddrLimit))>>

\* the ways to pick at most n of k kinds, in the order of the kinds
Picks(n, k) ==
    {ks \in UNION {[1..m -> 1..k] : m \in 0..n} :
        \A i \in 1..Len(ks), j \in 1..Len(ks) : i < j => ks[i] < ks[j]}

MapOf(ks) == <<StartEntry>> \o [i \in 1..Len(ks) |-> EntryKinds[ks[i]]]

Maps == {MapOf(ks) : ks \in Picks(MaxMaps, Len(EntryKinds))}

\* Documents
Emb(attrib) == Elem("EMBEDDEDDATA", attrib, NoneV, <<>>)
Var == Elem("VAR", [id |-> T_X], NoneV, <<>>)
Math1(eq) == Elem("MATH", [equation |-> eq], NoneV, <<Var>>)
MathCell(eq, r, c) ==
    Elem("MATH", [equation |-> eq, row |-> StrInt(r), col |-> StrInt(c)], NoneV, <<Var>>)
AxisEl(id, children) ==
    Elem("XDFAXIS", [id |-> id, uniqueid |-> T_0x0], NoneV, children)
TableEl(attrib, title, children) ==
    Elem("XDFTABLE", attrib, NoneV, <<Leaf("title", Str(title))>> \o children)

AxX_Plain == AxisEl(T_x, <<Leaf("indexcount", Str(<<"2">>)), Leaf("units", Str(<<"V">>))>>)
AxZ_Block ==
    AxisEl(T_z, <<Emb([mmedaddress |-> Hex(BlockAt), mmedelementsizebits |-> <<"8">>,
                       mmedrowcount |-> <<"2">>]),
                  Leaf("decimalpl", Str(<<"0">>)), Math1(F_xTimes2)>>)
AxZ_Cells ==
    AxisEl(T_z, <<Emb([mmedaddress |-> Hex(768), mmedrowcount |-> <<"1">>,
                       mmedcolcount |-> <<"2">>]),
                  MathCell(F_X, 1, 1), MathCell(F_XPlus1, 1, 2),
                  MathCell(F_8FloorDivX, 2, 1)>>)
AxZ_NoRows == AxisEl(T_z, <<Emb([mmedaddress |-> Hex(1024)])>>)
AxZ_End == AxisEl(T_z, <<Emb([mmedaddress |-> Hex(8190), mmedrowcount |-> <<"4">>])>>)
AxZ_Div0 ==
    AxisEl(T_z, <<Emb([mmedaddress |-> Hex(1280), mmedrowcount |-> <<"1">>]),
                  Math1(F_XDiv0)>>)
AxZ_Name ==
    AxisEl(T_z, <<Emb([mmedaddress |-> Hex(1280), mmedrowcount |-> <<"1">>]),
                  Math1(F_sqrt_x)>>)

TableKinds ==
    <<TableEl([uniqueid |-> Hex(1), flags |-> T_0x0], <<"T">>, <<AxX_Plain, AxZ_Block>>),
      TableEl([uniqueid |-> Upper(Hex(2))], <<"U">>, <<AxZ_Cells>>),
      TableEl(NoAttrib, <<"V">>, <<AxX_Plain>>),
      TableEl([uniqueid |-> Hex(3)], <<"W">>, <<AxZ_NoRows>>),
      TableEl([uniqueid |-> Hex(4)], <<"P">>, <<AxZ_End>>),
      TableEl([uniqueid |-> Hex(5)], <<"Q">>, <<AxZ_Div0>>),
      TableEl([uniqueid |-> Hex(6)], <<"R">>, <<AxZ_Name>>)>>

HeaderEl ==
    Elem("XDFHEADER", NoAttrib, NoneV,
         <<Leaf("flags", Str(T_0x0)),
           Leaf("deftitle", Str(<<"d">>)),
           Elem("BASEOFFSET", [offset |-> StrInt(BankSize), subtract |-> <<"0">>],
                NoneV, <<>>),
           Elem("DEFAULTS", [datasizeinbits |-> <<"8">>, sigdigits |-> <<"2">>],
                NoneV, <<>>)>>)

ScalarEl ==
    Elem("XDFSCALAR", [uniqueid |-> Hex(16)], NoneV,
         <<Leaf("title", Str(<<"s">>)),
           Emb([mmedaddress |-> Hex(256), mmedelementsizebits |-> <<"8">>]),
           Math1(F_X)>>)

ConstantEl ==
    Elem("XDFCONSTANT", [uniqueid |-> Hex(17)], NoneV,
         <<Leaf("title", Str(<<"c">>)), Leaf("address", Str(Hex(257)))>>)

Document(header, ks, scalars, consts) ==
    Elem("XDFORMAT", [version |-> T_version], NoneV,
         (IF header THEN <<HeaderEl>> ELSE <<>>)
         \o [i \in 1..Len(ks) |-> TableKinds[ks[i]]]
         \o [i \in 1..scalars |-> ScalarEl]
         \o [i \in 1..consts |-> ConstantEl])

Documents ==
    {Document(h, ks, sc, sc) :
        h \in BOOLEAN, ks \in Picks(MaxTables, Len(TableKinds)), sc \in 0..1}

\* The runs followed: two maps, two images and two documents, and around
\* them every map, every image and every document.
SomeMaps == {MapOf(<<1>>), MapOf(<<1, 3>>)}
SomeImages == {Image(SmallImage, 0, 55, MaxSize), Image(BankSize, 0, 73, MaxSize)}
SomeDocuments == {Document(TRUE, <<1>>, 1, 1), Document(FALSE, <<>>, 0, 0)}

\* A run in which an axis of the document holds the address merge_data
\* records for an entry: the block lies 4096 bytes further up in the image
HighBlockAt == BankSize + BlockAt

HighImage == [Image(SmallImage, 0, 55, MaxSize) EXCEPT !.at = HighBlockAt]

HighMap == <<StartEntry, MapEntry(T_MemoryRefMap, <<"G">>, Hex(HighBlockAt))>>

AxZ_Recorded ==
    AxisEl(T_z, <<Emb([mmedaddress |-> Hex(HighBlockAt + MaxSize + 2 - BankSize),
                       mmedrowcount |-> StrInt(MaxSize)])>>)

HighDocument ==
    Elem("XDFORMAT", [version |-> T_version], NoneV,
         <<HeaderEl, TableEl([uniqueid |-> Hex(7)], <<"H">>, <<AxX_Plain, AxZ_Recorded>>)>>)

\* A run in which the first pass finds the values of an entry: the axis
\* holds the recorded address of the entry less 4096
AxZ_Answered ==
    AxisEl(T_z, <<Emb([mmedaddress |-> Hex(BlockAt + MaxSize + 2 - 2 * BankSize),
                       mmedrowcount |-> StrInt(MaxSize)])>>)

AnsweredDocument ==
    Elem("XDFORMAT", [version |-> T_version], NoneV,
         <<HeaderEl, TableEl([uniqueid |-> Hex(8)], <<"I">>, <<AxX_Plain, AxZ_Answered>>)>>)

Inputs ==
    (Maps \X SomeImages \X SomeDocuments)
    \cup (SomeMaps \X Images \X SomeDocuments)
    \cup (SomeMaps \X SomeImages \X Documents)
    \cup {<<HighMap, HighImage, HighDocument>>,
          <<MapOf(<<1>>), Image(SmallImage, 0, 55, MaxSize), AnsweredDocument>>}

-----------------------------------------------------------------------------
(* The run of main().                                                      *)

NoLookup == [done |-> FALSE, image |-> Image(SmallImage, 0, 0, 0), addr |-> <<>>,
             size |-> NoneV, err |-> "none", val |-> <<>>]

NoId == [tables |-> <<>>, rand_id |-> NoneV, index |-> 0]

NoFormula == [call |-> "none", vals |-> Nothing, math_table |-> Nothing,
              err |-> "none", res |-> Nothing]

Init ==
    /\ pc = "start"
    /\ err = "none"
    /\ \E in \in Inputs : map = in[1] /\ bindata = in[2] /\ xml = in[3]
    /\ map_def = <<>>
    /\ xdf_def = EmptyXdf
    /\ xdf_in = EmptyXdf
    /\ merges = 0
    /\ embed = <<>>
    /\ xdf_out = <<>>
    /\ xdf_back = EmptyXdf
    /\ lk = NoLookup
    /\ map_file = <<>>
    /\ fr = NoFormula
    /\ uid = NoId

\* out_def = merge_data(bin_file, json_map_file_name)
MergeDataEnds(r) ==
    /\ map_def' = r.out_def
    /\ err' = r.err
    /\ pc' = IF r.err = "none" THEN "mapped" ELSE "failed"

MergeData ==
    /\ pc = "start"
    /\ MergeDataEnds(merge_data(bindata, map))
    /\ UNCHANGED <<bindata, map, xml, xdf_def, xdf_in, merges, embed, xdf_out,
                   xdf_back, lk, map_file, fr, uid>>

\* xdf_def = parser.parse(map_def)
ParseEnds(r) ==
    /\ xdf_def' = r.xdf_def
    /\ err' = r.err
    /\ pc' = IF r.err = "none" THEN "parsed" ELSE "failed"

Parse ==
    /\ pc = "mapped"
    /\ ParseEnds(parse(xml))
    /\ UNCHANGED <<bindata, map, map_def, xml, xdf_in, merges, embed, xdf_out,
                   xdf_back, lk, map_file, fr, uid>>

\* xdf_def_merge = merge_map_into_xdf(xdf_def, map_def, bindata), once or again
\* on its own result
MergeEnds(r) ==
    /\ r.ok
    /\ xdf_in' = xdf_def
    /\ xdf_def' = r.xdf_def
    /\ err' = r.err
    /\ pc' = IF r.err = "none" THEN "merged" ELSE "failed"

MergeMapIntoXdf ==
    /\ pc \in {"parsed", "merged"}
    /\ merges < MaxMerges
    /\ \E rs \in [1..Len(map_def) -> Draws] :
          MergeEnds(merge_map_into_xdf(xdf_def, map_def, bindata, rs))
    /\ merges' = merges + 1
    /\ UNCHANGED <<bindata, map, map_def, xml, embed, xdf_out, xdf_back, lk, map_file, fr, uid>>

\* embed = create_embedded(xdf_def_merge): main writes what one merge gave,
\* and the model also writes the document as parsed
CreateEmbedded ==
    /\ pc \in {"parsed", "merged"}
    /\ merges <= 1
    /\ embed' = create_embedded(xdf_def)
    /\ pc' = "embedded"
    /\ UNCHANGED <<err, bindata, map, map_def, xml, xdf_def, xdf_in, merges,
                   xdf_out, xdf_back, lk, map_file, fr, uid>>

\* parser.to_embedded_json(...), which writes no file for an empty list, and
\* json_to_xdf(outfile_embedded_json, outfile_merged_xdf)
JsonToXdfEnds(r) ==
    /\ xdf_out' = r.xdf
    /\ err' = r.err
    /\ pc' = IF r.err = "none" THEN "written" ELSE "failed"

JsonToXdf ==
    /\ pc = "embedded"
    /\ JsonToXdfEnds(IF embed = <<>> THEN [err |-> "FileNotFoundError", xdf |-> <<>>]
                     ELSE json_to_xdf(embed))
    /\ UNCHANGED <<bindata, map, map_def, xml, xdf_def, xdf_in, merges, embed,
                   xdf_back, lk, map_file, fr, uid>>

\* XDFParser(outfile_merged_xdf).parse(map_def)
ReparseEnds(r) ==
    /\ xdf_back' = r.xdf_def
    /\ err' = r.err
    /\ pc' = IF r.err = "none" THEN "reparsed" ELSE "failed"

Reparse ==
    /\ pc = "written"
    /\ ReparseEnds(parse(xdf_out))
    /\ UNCHANGED <<bindata, map, map_def, xml, xdf_def, xdf_in, merges, embed,
                   xdf_out, lk, map_file, fr, uid>>

Next ==
    \/ MergeData
    \/ Parse
    \/ MergeMapIntoXdf
    \/ CreateEmbedded
    \/ JsonToXdf
    \/ Reparse

Spec == Init /\ [][Next]_vars

-----------------------------------------------------------------------------
(* lookup_val on its own: one call on an image, an address text and a      *)
(* size.                                                                   *)

T_zz == <<"z","z">>

LookupAddrs ==
    {Hex(a) : a \in {0, BlockAt - 1, BlockAt, BlockAt + 1, BankSize - 2, BankSize - 1,
                     BankSize, BankSize + BlockAt, AddrLimit - 1, AddrLimit}}
    \cup {T_zz}

LookupSizes == {Num(n) : n \in 0..(MaxSize + 1)} \cup {NoneV}

InitLookup ==
    /\ pc = "lookup"
    /\ err = "none"
    /\ bindata \in Images
    /\ map = <<>>
    /\ xml = <<>>
    /\ map_def = <<>>
    /\ xdf_def = EmptyXdf
    /\ xdf_in = EmptyXdf
    /\ merges = 0
    /\ embed = <<>>
    /\ xdf_out = <<>>
    /\ xdf_back = EmptyXdf
    /\ \E a \in LookupAddrs, n \in LookupSizes :
          lk = [NoLookup EXCEPT !.image = bindata, !.addr = a, !.size = n]
    /\ map_file = <<>>
    /\ fr = NoFormula
    /\ uid = NoId

LookupEnds(r) ==
    lk' = [lk EXCEPT !.done = TRUE, !.err = r.err, !.val = r.val]

\* hex_values = lookup_val(bindata, addr, size)
LookupVal ==
    /\ pc = "lookup"
    /\ ~lk.done
    /\ LookupEnds(lookup_val(lk.image, lk.addr, lk.size))
    /\ UNCHANGED <<pc, err, bindata, map, map_def, xml, xdf_def, xdf_in, merges,
                   embed, xdf_out, xdf_back, map_file, fr, uid>>

NextLookup == LookupVal

SpecLookup == InitLookup /\ [][NextLookup]_vars

-----------------------------------------------------------------------------
(* extract_values_from_bin(map_file): the address-list file is the list of *)
(* its lines, without their line ends.                                     *)

Whitespace == {" "}
Quote == {"\""}

\* s.strip() and s.strip('"'): the characters of cs taken off both ends
Strip(s, cs) ==
    LET keep == {i \in 1..Len(s) : s[i] \notin cs}
    IN  IF keep = {} THEN <<>>
        ELSE SubSeq(s, CHOOSE i \in keep : \A j \in keep : i <= j,
                       CHOOSE i \in keep : \A j \in keep : j <= i)

\* s.split(",", maxsplit)
RECURSIVE Split(_, _)
Split(s, maxsplit) ==
    LET commas == {i \in 1..Len(s) : s[i] = ","}
    IN  IF maxsplit = 0 \/ commas = {} THEN <<s>>
        ELSE LET i == CHOOSE c \in commas : \A d \in commas : c <= d
             IN  <<SubSeq(s, 1, i - 1)>> \o Split(SubSeq(s, i + 1, Len(s)), maxsplit - 1)

T_MAP == <<"M","A","P">>
T_StartOfMaps == <<"S","t","a","r","t"," ","o","f"," ","M","a","p","s">>

\* A loader that compares the first field with MAP before taking its quotes
\* off.
LineEntryQuoted(parts) ==
    [Address |-> Str(Strip(parts[3], Quote)),
     Type |-> Str(IF parts[1] = T_MAP THEN T_MemoryRefMap ELSE T_FixedMap),
     Title |-> Str(Strip(parts[2], Quote))]

\* the dict appended for one line with a separator
LineEntry(parts) ==
    [Address |-> Str(Strip(parts[3], Quote)),
     Type |-> Str(IF Strip(parts[1], Quote) = T_MAP THEN T_MemoryRefMap ELSE T_FixedMap),
     Title |-> Str(Strip(parts[2], Quote))]

\* the loop over the lines: [err, data]
RECURSIVE LinesFrom(_, _, _)
LineTurn(lines, k, data, line) ==
    IF line = <<>> \/ \A i \in 1..Len(line) : line[i] # ","
    THEN LinesFrom(lines, k + 1, data)
    ELSE IF Len(Split(line, 2)) # 3
    THEN \* entry_type, descr, addr = line.split(",", 2) with two parts
         [err |-> "ValueError", data |-> <<>>]
    ELSE LinesFrom(lines, k + 1, Append(data, LineEntry(Split(line, 2))))

LinesFrom(lines, k, data) ==
    IF k > Len(lines) THEN [err |-> "none", data |-> data]
    ELSE LineTurn(lines, k, data, Strip(lines[k], Whitespace))

\* data[0]["Type"] = "Start"; data[0]["Description"] = "Start of Maps"
MarkStart(r) ==
    IF r.err # "none" THEN r
    ELSE IF r.data = <<>> THEN [err |-> "IndexError", data |-> <<>>]
    ELSE [err |-> "none",
          data |-> <<Put(Put(r.data[1], "Type", Str(T_Start)),
                         "Description", Str(T_StartOfMaps))>> \o Tail(r.data)]

extract_values_from_bin(lines) == MarkStart(LinesFrom(lines, 1, <<>>))

\* The lines the model follows
L_Start == <<"S",",","S",",","0","x","1","0","0">>
L_MapA == <<"M","A","P",",","A",",","0","x","2","0","0">>
L_TableB == <<"T",",","B",",","0","x","2","0","0">>
L_QuotedMapC == <<"\"","M","A","P","\"",",","\"","C","\"",",","0","x","3","0","0">>
L_LowerMap == <<"m","a","p",",","G",",","0","x","1">>
L_PaddedMap == <<" ","M","A","P"," ",",","D",",","0","x","1"," ">>
L_Empty == <<>>
L_Blank == <<" "," ">>
L_NoSeparator == <<"#","m","a","p","s">>
L_OneSeparator == <<"M","A","P",",","E">>
L_ThreeSeparators == <<"M","A","P",",","F",",","0","x","1",",","9">>

LineKinds ==
    {L_Start, L_MapA, L_TableB, L_QuotedMapC, L_LowerMap, L_PaddedMap, L_Empty,
     L_Blank, L_NoSeparator, L_OneSeparator, L_ThreeSeparators}

MapFiles == UNION {[1..n -> LineKinds] : n \in 0..MaxLines}

InitLoader ==
    /\ pc = "load"
    /\ err = "none"
    /\ map_file \in MapFiles
    /\ map = <<>>
    /\ bindata = Image(SmallImage, 0, 0, 0)
    /\ xml = <<>>
    /\ map_def = <<>>
    /\ xdf_def = EmptyXdf
    /\ xdf_in = EmptyXdf
    /\ merges = 0
    /\ embed = <<>>
    /\ xdf_out = <<>>
    /\ xdf_back = EmptyXdf
    /\ lk = NoLookup
    /\ fr = NoFormula
    /\ uid = NoId

ExtractEnds(r) ==
    /\ map' = r.data
    /\ err' = r.err
    /\ pc' = IF r.err = "none" THEN "loaded" ELSE "failed"

\* data = extract_values_from_bin(input_map_file)
ExtractValuesFromBin ==
    /\ pc = "load"
    /\ ExtractEnds(extract_values_from_bin(map_file))
    /\ UNCHANGED <<bindata, map_def, xml, xdf_def, xdf_in, merges, embed, xdf_out,
                   xdf_back, lk, map_file, fr, uid>>

NextLoader == ExtractValuesFromBin

SpecLoader == InitLoader /\ [][NextLoader]_vars

-----------------------------------------------------------------------------
(* find_result_table and find_result on their own: one call on a list of   *)
(* values and a list of formulas.                                          *)

\* find_result(vals, math): [err, res], res <<>> for None and <<list>>
\* otherwise; vals is <<>> for None, else <<list>>
find_result(vals, math) ==
    IF vals = Nothing THEN [err |-> "none", res |-> Some(<<>>)]
    ELSE
    LET vs == vals[1]
        stop(i) == IsNone(vs[i]) \/ EvalCell(math, vs[i]).err # "none"
        k == FirstTurn(Len(vs), stop)
    IN  IF k > Len(vs)
        THEN [err |-> "none",
              res |-> Some([i \in 1..Len(vs) |-> Num(EvalCell(math, vs[i]).val)])]
        ELSE IF IsNone(vs[k]) THEN [err |-> "none", res |-> Nothing]
        ELSE [err |-> EvalCell(math, vs[k]).err, res |-> Nothing]

\* The values and the formulas the model follows
ValueKinds == {Str(Hex(17)), Str(Hex(0)), Num(4), NoneV}

EquationKinds == {F_X, F_XPlus1, F_xTimes2, F_8FloorDivX, F_Y}

\* the entry _extract_math_table makes of <MATH equation=... row=i col=1>
CellEntry(eq, i) ==
    [row |-> Num(i), col |-> Num(1), equation |-> Str(eq), var |-> Str(T_X)]

ValueLists ==
    {Nothing} \cup {Some(vs) : vs \in UNION {[1..n -> ValueKinds] : n \in 0..MaxCells}}

MathTables ==
    {Nothing}
    \cup {Some([i \in 1..Len(eqs) |-> CellEntry(eqs[i], i)]) :
            eqs \in UNION {[1..n -> EquationKinds] : n \in 0..MaxCells}}

InitFormula ==
    /\ pc = "formula"
    /\ err = "none"
    /\ \E vs \in ValueLists, mt \in MathTables :
          fr = [NoFormula EXCEPT !.vals = vs, !.math_table = mt]
    /\ uid = NoId
    /\ map_file = <<>>
    /\ map = <<>>
    /\ bindata = Image(SmallImage, 0, 0, 0)
    /\ xml = <<>>
    /\ map_def = <<>>
    /\ xdf_def = EmptyXdf
    /\ xdf_in = EmptyXdf
    /\ merges = 0
    /\ embed = <<>>
    /\ xdf_out = <<>>
    /\ xdf_back = EmptyXdf
    /\ lk = NoLookup

FormulaEnds(call, r) ==
    fr' = [fr EXCEPT !.call = call, !.err = r.err, !.res = r.res]

\* axis["Results"] = find_result_table(val, axis.get("Math_Table"))
FindResultTable ==
    /\ pc = "formula"
    /\ fr.call = "none"
    /\ FormulaEnds("find_result_table", find_result_table(fr.vals, fr.math_table))
    /\ UNCHANGED <<pc, err, bindata, map, map_def, xml, xdf_def, xdf_in, merges,
                   embed, xdf_out, xdf_back, lk, map_file, uid>>

\* find_result(vals, math) with the first formula of the list
FindResult ==
    /\ pc = "formula"
    /\ fr.call = "none"
    /\ fr.math_table # Nothing
    /\ fr.math_table[1] # <<>>
    /\ FormulaEnds("find_result", find_result(fr.vals, fr.math_table[1][1].equation))
    /\ UNCHANGED <<pc, err, bindata, map, map_def, xml, xdf_def, xdf_in, merges,
                   embed, xdf_out, xdf_back, lk, map_file, uid>>

NextFormula ==
    \/ FindResultTable
    \/ FindResult

SpecFormula == InitFormula /\ [][NextFormula]_vars

-----------------------------------------------------------------------------
(* new_unique_table_id on its own, step by step: the while loop, the draw  *)
(* and the for loop over the tables.  getrandbits gives the numbers of     *)
(* Draws.                                                                  *)

\* the UniqueID values the tables of a call hold
IdKinds == {Str(Upper(Hex(1))), Str(Upper(Hex(2))), Str(Hex(1)), NoneV}

TableLists ==
    UNION {[1..n -> {[UniqueID |-> v] : v \in IdKinds}] : n \in 0..MaxIdTables}

InitId ==
    /\ pc = "while"
    /\ err = "none"
    /\ \E ts \in TableLists : uid = [NoId EXCEPT !.tables = ts]
    /\ fr = NoFormula
    /\ map_file = <<>>
    /\ map = <<>>
    /\ bindata = Image(SmallImage, 0, 0, 0)
    /\ xml = <<>>
    /\ map_def = <<>>
    /\ xdf_def = EmptyXdf
    /\ xdf_in = EmptyXdf
    /\ merges = 0
    /\ embed = <<>>
    /\ xdf_out = <<>>
    /\ xdf_back = EmptyXdf
    /\ lk = NoLookup

\* rand_id=hex(random.getrandbits(16)); match=False
GetRandBits(r) ==
    /\ pc = "while"
    /\ pc' = "for"
    /\ uid' = [uid EXCEPT !.rand_id = Str(Hex(r)), !.index = 1]
    /\ UNCHANGED <<err, bindata, map, map_def, xml, xdf_def, xdf_in, merges,
                   embed, xdf_out, xdf_back, lk, map_file, fr>>

\* one turn of "for table in tables": a match breaks out and the while
\* loop goes round again
CompareId ==
    /\ pc = "for"
    /\ uid.index <= Len(uid.tables)
    /\ IF Get(uid.tables[uid.index], "UniqueID") = Str(Upper(uid.rand_id.s))
       THEN pc' = "while" /\ uid' = uid
       ELSE pc' = pc /\ uid' = [uid EXCEPT !.index = uid.index + 1]
    /\ UNCHANGED <<err, bindata, map, map_def, xml, xdf_def, xdf_in, merges,
                   embed, xdf_out, xdf_back, lk, map_file, fr>>

\* the for loop ended with match False: return(rand_id)
ReturnId ==
    /\ pc = "for"
    /\ uid.index > Len(uid.tables)
    /\ pc' = "returned"
    /\ UNCHANGED <<err, bindata, map, map_def, xml, xdf_def, xdf_in, merges,
                   embed, xdf_out, xdf_back, lk, map_file, fr, uid>>

NextId ==
    \/ \E r \in Draws : GetRandBits(r)
    \/ CompareId
    \/ ReturnId

SpecId == InitId /\ [][NextId]_vars

\* The call keeps running, and the random source gives every number again
\* and again.
SpecIdFair ==
    /\ SpecId
    /\ WF_vars(CompareId)
    /\ WF_vars(ReturnId)
    /\ \A r \in Draws : SF_vars(GetRandBits(r))

-----------------------------------------------------------------------------
(* The properties.  In a state with pc = "merged", xdf_in is the document  *)
(* the last call of merge_map_into_xdf was given and xdf_def is that       *)
(* document as the call left it, which is also what the call returned.     *)

\* C1: a second merge of its own result with the same map list and image
\* adds no further Tables and no further Axes.
C1_SecondMergeAddsNothing ==
    (pc = "merged" /\ merges = 2) =>
        /\ Len(xdf_def.Tables) = Len(xdf_in.Tables)
        /\ Len(xdf_def.Axes) = Len(xdf_in.Axes)

\* whether the address of a map entry is the embedded address of a z axis
\* of the document given to the merge
MatchesZAxis(entry) ==
    \E i \in 1..Len(xdf_in.Axes) :
        /\ Get(xdf_in.Axes[i], "ID") = Str(T_z)
        /\ ~IsNone(Get(xdf_in.Axes[i], "Embedded_Address"))
        /\ ParseHex(xdf_in.Axes[i].Embedded_Address.s) = ParseHex(entry.Addr.s)

NewEntries == SelectSeq(map_def, LAMBDA e : ~MatchesZAxis(e))

\* C2: a merge that returns has added, for every map entry matching no z
\* axis of the document, exactly one Table and the three Axes x, y, z whose
\* ParentID is the new Table's UniqueID and whose Parent is its Title, in
\* map order, and nothing for the entries that match.
C2_DiscoveryAddsOneTableThreeAxes ==
    pc = "merged" =>
        LET nt == Len(xdf_in.Tables)
            na == Len(xdf_in.Axes)
        IN  /\ Len(xdf_def.Tables) = nt + Len(NewEntries)
            /\ Len(xdf_def.Axes) = na + 3 * Len(NewEntries)
            /\ \A i \in 1..nt : xdf_def.Tables[i] = xdf_in.Tables[i]
            /\ \A j \in 1..Len(NewEntries) :
                  LET t == xdf_def.Tables[nt + j]
                      ax(k) == xdf_def.Axes[na + 3 * (j - 1) + k]
                  IN  /\ t.Title = NewEntries[j].Title
                      /\ t.Address = NewEntries[j].Addr
                      /\ <<ax(1).ID, ax(2).ID, ax(3).ID>> = <<Str(T_x), Str(T_y), Str(T_z)>>
                      /\ \A k \in 1..3 : /\ ax(k).ParentID = t.UniqueID
                                         /\ ax(k).Parent = t.Title

\* a merge returned for a map list with an entry that matches a z axis and
\* an entry that matches none
C2_Witness ==
    /\ pc = "merged"
    /\ merges = 1
    /\ \E i \in 1..Len(map_def) : MatchesZAxis(map_def[i])
    /\ Len(NewEntries) >= 1

IdsDistinct(tables) ==
    \A i \in 1..Len(tables), j \in 1..Len(tables) :
        i # j => Get(tables[i], "UniqueID") # Get(tables[j], "UniqueID")

\* C3: after a merge of a document whose Tables had distinct UniqueIDs, no
\* two Tables share a UniqueID.
C3_TableIdsStayDistinct ==
    (pc = "merged" /\ IdsDistinct(xdf_in.Tables)) => IdsDistinct(xdf_def.Tables)

\* the records of map_def that the self-describing branch made
SelfDescribed(rec) ==
    /\ bindata.len = SmallImage
    /\ rec.MapType # Str(T_FixedMap)
    /\ ParseHex(rec.Addr.s)[1] > LowGuard
    /\ ParseHex(rec.Addr.s)[1] < AddrLimit

\* C4: the record of a non-FixedMap entry at address a, 0x100 < a < 0x2000,
\* in an 8192-byte image has, with n the image byte at a+1, Size n, Header
\* Values the hex texts of the bytes at a+2 .. a+n+1 and Map Values the hex
\* texts of the bytes at a+n+2 .. a+2n+1, in image order.
C4_SelfDescribingExtraction ==
    \A r \in 1..Len(map_def) :
        SelfDescribed(map_def[r]) =>
            LET a == ParseHex(map_def[r].Addr.s)[1]
                n == ByteAt(bindata, a + 1)
            IN  /\ ParseHex(map_def[r].Size.s) = <<n>>
                /\ map_def[r].Header_Values =
                      [i \in 1..n |-> Str(Hex(ByteAt(bindata, a + 1 + i)))]
                /\ map_def[r].Map_Values =
                      [i \in 1..n |-> Str(Hex(ByteAt(bindata, a + n + 1 + i)))]

\* merge_data made a self-describing record of the largest block
C4_Witness ==
    /\ pc = "mapped"
    /\ \E r \in 1..Len(map_def) :
          /\ SelfDescribed(map_def[r])
          /\ Len(map_def[r].Map_Values) = MaxSize
          /\ map_def[r].Map_Values # map_def[r].Header_Values

\* C5: the Source of a self-describing record is the channel name of the
\* image byte at the entry's address, and the hex text of that byte only
\* for a code that has no name.
C5_SourceIsChannelName ==
    \A r \in 1..Len(map_def) :
        SelfDescribed(map_def[r]) =>
            LET code == ByteAt(bindata, ParseHex(map_def[r].Addr.s)[1])
            IN  map_def[r].Source = Str(ChannelName(code, Hex(code)))

\* C6: a formula that fails to evaluate does not end the merge: no call of
\* merge_map_into_xdf ends with the exception of a division by zero or of
\* a syntax error, which only an evaluation raises.
C6_FormulaFailureDoesNotAbort ==
    ~(/\ pc = "failed"
      /\ merges >= 1
      /\ err \in {"ZeroDivisionError", "SyntaxError"})

\* C7: a call of lookup_val that returns n >= 1 values has read them at
\* offsets offset .. offset+n-1 of the image, with 0 <= offset and
\* offset + n <= the image length.
C7_LookupInsideImage ==
    (lk.done /\ lk.err = "none" /\ lk.size.n >= 1) =>
        LET a == ParseHex(lk.addr)[1]
            offset == IF lk.image.len = SmallImage THEN a ELSE a - BankSize
        IN  /\ 0 <= offset
            /\ offset + lk.size.n <= lk.image.len
            /\ lk.val = [i \in 1..lk.size.n |->
                            Str(Hex(ByteAt(lk.image, offset + i - 1)))]

\* C8: the document passed to merge_map_into_xdf is after the call as it
\* was before it.
C8_InputNotMutated ==
    (merges >= 1 /\ pc \in {"merged", "failed"} /\ xdf_out = <<>> /\ embed = <<>>) =>
        xdf_def = xdf_in

\* C9: the document parsed from what json_to_xdf wrote equals, field for
\* field, the parsed document that was written.
C9_RoundTrip ==
    (pc = "reparsed" /\ merges = 0) => xdf_back = xdf_def

RecordsOf(data, type) ==
    SelectSeq(data, LAMBDA rec : Get(rec, "ObjectType") = Str(type))

\* C10: the written document has one XDFTABLE block per Table record, in
\* record order, holding one XDFAXIS per Axis record whose ParentID is the
\* Table's UniqueID, with the ids of these records in their order.
C10_EveryTableWrittenWithItsAxes ==
    pc = "written" =>
        LET tables == RecordsOf(embed, T_Table)
            blocks == FindAll(xdf_out, "XDFTABLE")
        IN  /\ Len(blocks) = Len(tables)
            /\ \A k \in 1..Len(tables) :
                  LET own == SelectSeq(RecordsOf(embed, T_Axis),
                                       LAMBDA rec : Get(rec, "ParentID") =
                                                    Get(tables[k], "UniqueID"))
                      written == FindAll(blocks[k], "XDFAXIS")
                  IN  /\ Len(written) = Len(own)
                      /\ \A i \in 1..Len(own) :
                            Attr(written[i], "id", NoneV) = Get(own[i], "ID")

\* the header fields json_to_xdf writes as child texts, with their tags
HeaderLeaves ==
    {<<"Flags", "flags">>, <<"FileVersion", "fileversion">>,
     <<"DefTitle", "deftitle">>, <<"Description", "description">>,
     <<"Author", "author">>}

\* C11: the written document holds no header element for a header field
\* that is missing or None in the first record, and no EMBEDDEDDATA
\* attribute with the empty text or the text None.
C11_AbsentFieldsOmitted ==
    pc = "written" =>
        /\ \A h \in {FindAll(xdf_out, "XDFHEADER")[i] :
                        i \in 1..Len(FindAll(xdf_out, "XDFHEADER"))} :
              \A p \in HeaderLeaves :
                  IsNone(Get(embed[1], p[1])) => FindAll(h, p[2]) = <<>>
        /\ \A e \in {FindAllDeep(xdf_out, "EMBEDDEDDATA")[i] :
                        i \in 1..Len(FindAllDeep(xdf_out, "EMBEDDEDDATA"))} :
              \A a \in DOMAIN e.attrib : e.attrib[a] \notin {<<>>, T_NoneText}

\* the lines of the file that hold a separator, in file order
HasSeparator(line) == \E i \in 1..Len(line) : line[i] = ","

KeptLines == SelectSeq(map_file, HasSeparator)

\* the declared type of a line: its first field without the quotes
DeclaredType(line) == Strip(Split(Strip(line, Whitespace), 1)[1], Quote)

\* C12: in the list extract_values_from_bin returned, the first entry has
\* Type Start whatever its line declares, and every later entry has Type
\* MemoryRefMap when its line declares MAP and FixedMap otherwise.
C12_LoaderKinds ==
    pc = "loaded" =>
        /\ map[1].Type = Str(T_Start)
        /\ \A i \in 2..Len(map) :
              i <= Len(KeptLines) =>
                  map[i].Type = Str(IF DeclaredType(KeptLines[i]) = T_MAP
                                    THEN T_MemoryRefMap ELSE T_FixedMap)

\* a list of two entries was returned whose first line declares MAP and
\* whose second line declares MAP inside quotes
C12_Witness ==
    /\ pc = "loaded"
    /\ Len(map) = 2
    /\ map_file[1] = L_MapA
    /\ map_file[2] = L_QuotedMapC
    /\ map[1].Type = Str(T_Start)
    /\ map[2].Type = Str(T_MemoryRefMap)

\* C13: the load of every file ends without an exception and returns one
\* entry per line that holds a separator, in file order; the other lines
\* are skipped, also when no line holds a separator.
C13_LoaderSkipsAndKeepsOrder ==
    pc \in {"loaded", "failed"} =>
        /\ err = "none"
        /\ Len(map) = Len(KeptLines)
        /\ \A i \in 1..Len(map) :
              map[i].Title = Str(Strip(Split(Strip(KeptLines[i], Whitespace), 2)[2], Quote))


\* the call was given a list of at least one value, none of them None
RealValues ==
    /\ fr.vals # Nothing
    /\ fr.vals[1] # <<>>
    /\ \A i \in 1..Len(fr.vals[1]) : ~IsNone(fr.vals[1][i])

\* the formulas the call evaluates: find_result its one formula,
\* find_result_table every formula of the axis
FormulasOfCall ==
    IF fr.math_table = Nothing THEN <<>>
    ELSE IF fr.call = "find_result" THEN SubSeq(fr.math_table[1], 1, 1)
    ELSE fr.math_table[1]

\* C14: a call that evaluates an axis's formulas over a list of values, one
\* value at least for every formula, ends with an error and returns no list
\* of results when one of the formulas references a name that is neither X
\* nor a function of the math module.
C14_UndeclaredNameRejected ==
    (/\ fr.call # "none"
     /\ RealValues
     /\ Len(fr.vals[1]) >= Len(FormulasOfCall)
     /\ \E i \in 1..Len(FormulasOfCall) : FormulasOfCall[i].equation = Str(F_Y))
        => (fr.err # "none" /\ fr.res = Nothing)


\* what lookup_val reads for a record at the address the first pass makes
\* of its XDF mmedaddr: hex(int(addr, 16) + 4096)
ReadBack(rec) ==
    lookup_val(bindata, Hex(ParseHex(rec.XDF_mmedaddr.s)[1] + BankSize),
               Num(ParseHex(rec.Size.s)[1]))

\* C15: for every record of a self-describing entry in an 8192-byte image,
\* lookup_val on the record's XDF mmedaddr plus 4096 with the record's size
\* returns the record's Map Values.
C15_AddressSymmetry ==
    \A r \in 1..Len(map_def) :
        SelfDescribed(map_def[r]) =>
            ReadBack(map_def[r]) = [err |-> "none", val |-> map_def[r].Map_Values]

\* the values of the largest block were read back, and they are not the
\* bytes that precede them
C15_Witness ==
    /\ pc \in {"mapped", "parsed"}
    /\ \E r \in 1..Len(map_def) :
          /\ SelfDescribed(map_def[r])
          /\ Len(map_def[r].Map_Values) = MaxSize
          /\ ReadBack(map_def[r]).val = map_def[r].Map_Values
          /\ ReadBack(map_def[r]).val # map_def[r].Header_Values


\* the XDFSCALAR elements of the input document, in document order
ScalarElements == FindAllDeep(xml, "XDFSCALAR")

\* parse of the input document has ended: it returned, or it raised
ParseEnded ==
    \/ pc = "parsed"
    \/ /\ pc = "failed"
       /\ merges = 0
       /\ xdf_def = EmptyXdf
       /\ merge_data(bindata, map).err = "none"

\* C16: parse returns one Scalar record for every XDFSCALAR element of the
\* document, in document order, also for a document with no table and no
\* axis.
C16_ScalarPerElement ==
    (ParseEnded /\ (pc = "parsed" \/ ScalarElements # <<>>)) =>
        /\ pc = "parsed"
        /\ Len(xdf_def.Scalars) = Len(ScalarElements)
        /\ \A i \in 1..Len(ScalarElements) :
              /\ xdf_def.Scalars[i].ObjectType = Str(T_Scalar)
              /\ xdf_def.Scalars[i].UniqueID = Attr(ScalarElements[i], "uniqueid", NoneV)


\* the first record whose XDF mmedaddr is the number n, 0 when there is none
FirstRecordAt(md, n) ==
    LET hit == {i \in 1..Len(md) : ParseHex(md[i].XDF_mmedaddr.s) = <<n>>}
    IN  IF hit = {} THEN 0 ELSE CHOOSE i \in hit : \A j \in hit : i <= j

\* the record the lookup order names for the address a: the first record at
\* a when it has values, else the first record at a + 4096 when it has
\* values, else 0
RecordInOrder(md, a) ==
    LET i == FirstRecordAt(md, a)
        j == FirstRecordAt(md, a + BankSize)
    IN  IF i # 0 /\ md[i].Map_Values # <<>> THEN i
        ELSE IF j # 0 /\ md[j].Map_Values # <<>> THEN j
        ELSE 0

\* C17: after the first merge every axis of the document that has an
\* address A carries the Map Values and the Header Values of the first
\* record whose XDF mmedaddr equals A when that record has values, and
\* otherwise those of the first record at A + 4096 that has values.
C17_LookupOrder ==
    (pc = "merged" /\ merges = 1) =>
        \A k \in 1..Len(xdf_in.Axes) :
            ~IsNone(Get(xdf_in.Axes[k], "Embedded_Address")) =>
                LET r == RecordInOrder(map_def,
                                       ParseHex(xdf_in.Axes[k].Embedded_Address.s)[1])
                IN  r # 0 =>
                        /\ "Values" \in DOMAIN xdf_def.Axes[k]
                        /\ xdf_def.Axes[k].Values = map_def[r].Map_Values
                        /\ "Header" \in DOMAIN xdf_def.Axes[k]
                        /\ xdf_def.Axes[k].Header = map_def[r].Header_Values


\* the offset in the image of the axis address a: a + 4096 under the
\* image-length rule of lookup_val
ImageOffset(a) == IF bindata.len = SmallImage THEN a + BankSize ELSE a

\* rows x cols of an axis, rows when it has no column count; 0 when it has
\* no row count
CountOf(axis) ==
    IF IsNone(Get(axis, "Embedded_Rowcount")) THEN 0
    ELSE IF IsNone(Get(axis, "Embedded_Colcount")) THEN axis.Embedded_Rowcount.n
    ELSE axis.Embedded_Rowcount.n * axis.Embedded_Colcount.n

\* the first pass reached axis k of the document: every axis before it was
\* left alone or got its Results
PassReached(k) ==
    \A j \in 1..(k - 1) :
        \/ IsNone(Get(xdf_in.Axes[j], "Embedded_Address"))
        \/ "Results" \in DOMAIN xdf_def.Axes[j]

\* axis k of the document has an address for which no record has values,
\* and its rows x cols bytes lie inside the image
FallsBackToImage(k) ==
    /\ ~IsNone(Get(xdf_in.Axes[k], "Embedded_Address"))
    /\ RecordInOrder(map_def, ParseHex(xdf_in.Axes[k].Embedded_Address.s)[1]) = 0
    /\ ImageOffset(ParseHex(xdf_in.Axes[k].Embedded_Address.s)[1])
           + CountOf(xdf_in.Axes[k]) <= bindata.len

\* C18: the first pass gives every axis whose address no record answers its
\* Values from the image: rows x cols bytes from the address, rows bytes
\* and a column count of 1 when the axis has no column count; it does so
\* for an axis with neither count as well.
C18_ImageFallback ==
    (pc \in {"merged", "failed"} /\ merges = 1) =>
        \A k \in 1..Len(xdf_in.Axes) :
            (FallsBackToImage(k) /\ PassReached(k)) =>
                /\ "Values" \in DOMAIN xdf_def.Axes[k]
                /\ ~IsNone(Get(xdf_def.Axes[k], "Embedded_Colcount"))
                /\ ~IsNone(Get(xdf_in.Axes[k], "Embedded_Rowcount")) =>
                      xdf_def.Axes[k].Values =
                          [i \in 1..CountOf(xdf_in.Axes[k]) |->
                              Str(Hex(ByteAt(bindata,
                                  ImageOffset(ParseHex(xdf_in.Axes[k].Embedded_Address.s)[1])
                                      + i - 1)))]


\* find_result_table was called with the formulas eqs (one entry each, in
\* order) and real values on which no formula of eqs raises
EvaluatesOn(k) ==
    /\ fr.call = "find_result_table"
    /\ RealValues
    /\ fr.math_table # Nothing
    /\ Len(fr.math_table[1]) = k
    /\ \A f \in 1..k, i \in 1..Len(fr.vals[1]) :
          EvalCell(fr.math_table[1][f].equation, fr.vals[1][i]).err = "none"

\* C19: with one formula and a non-empty list of values find_result_table
\* returns one entry for every value, and the result of entry i is the
\* formula evaluated with X the i-th value.
C19_SingleFormulaResults ==
    EvaluatesOn(1) =>
        /\ fr.err = "none"
        /\ fr.res # Nothing
        /\ Len(fr.res[1]) = Len(fr.vals[1])
        /\ \A i \in 1..Len(fr.vals[1]) :
              fr.res[1][i].result =
                  Num(EvalCell(fr.math_table[1][1].equation, fr.vals[1][i]).val)


\* C20: with k > 1 formulas and at least k values find_result_table returns
\* k entries, and entry i holds formula i evaluated with X the i-th value
\* together with the row and the column of formula i.
C20_FormulaTableResults ==
    \A k \in 2..MaxCells :
        (EvaluatesOn(k) /\ Len(fr.vals[1]) >= k) =>
            /\ fr.err = "none"
            /\ fr.res # Nothing
            /\ Len(fr.res[1]) = k
            /\ \A i \in 1..k :
                  /\ fr.res[1][i].result =
                        Num(EvalCell(fr.math_table[1][i].equation, fr.vals[1][i]).val)
                  /\ fr.res[1][i].row = fr.math_table[1][i].row
                  /\ fr.res[1][i].col = fr.math_table[1][i].col


\* the tables of the document whose UniqueID is the ParentID of the axis
ParentsOf(axis) ==
    {t \in 1..Len(xdf_def.Tables) :
        Get(xdf_def.Tables[t], "UniqueID") = Get(axis, "ParentID")}

\* C21: after parse and after every merge the ParentID of every Axis record
\* is the UniqueID of exactly one Table record, also for a table without a
\* uniqueid attribute and for a synthetic table.
C21_ParentInvariant ==
    pc \in {"parsed", "merged"} =>
        \A a \in 1..Len(xdf_def.Axes) :
            Cardinality(ParentsOf(xdf_def.Axes[a])) = 1


\* the decoded Size of the j-th map entry the merge added a table for
SizeOfNew(j) == ParseHex(NewEntries[j].Size.s)[1]

\* the y axis and the z axis of the j-th synthetic triple
NewAxis(j, k) == xdf_def.Axes[Len(xdf_in.Axes) + 3 * (j - 1) + k]

\* C22: in every synthetic triple the IndexCount of the y axis and the
\* Embedded.Rowcount of the z axis are the decoded Size of the map entry,
\* whatever find_size gives for the entry, and the z axis has that many
\* Values.
C22_SizeFromMapEntry ==
    pc = "merged" =>
        \A j \in 1..Len(NewEntries) :
            /\ NewAxis(j, 2).IndexCount = Num(SizeOfNew(j))
            /\ NewAxis(j, 3).Embedded_Rowcount = Num(SizeOfNew(j))
            /\ Len(NewAxis(j, 3).Values) = SizeOfNew(j)

\* a table was added for an entry of the largest size for which find_size
\* gives another number
C22_Witness ==
    /\ pc = "merged"
    /\ merges = 1
    /\ \E j \in 1..Len(NewEntries) :
          /\ SizeOfNew(j) = MaxSize
          /\ ~IsNone(find_size(xdf_in.Axes, NewEntries[j].XDF_mmedaddr))
          /\ find_size(xdf_in.Axes, NewEntries[j].XDF_mmedaddr) # Num(MaxSize)
          /\ NewAxis(j, 3).Embedded_Rowcount = Num(MaxSize)


\* the XDFCONSTANT elements of the input document, in document order
ConstantElements == FindAllDeep(xml, "XDFCONSTANT")

\* C23: parse gives every Scalar record and every Constant record the
\* address of the EMBEDDEDDATA block of its own element, whatever tables and
\* axes the document holds, and a document with a scalar or a constant and
\* no axis is parsed.
C23_OwnEmbeddedAddress ==
    (ParseEnded /\ (pc = "parsed" \/ ScalarElements # <<>> \/ ConstantElements # <<>>)) =>
        /\ pc = "parsed"
        /\ \A i \in 1..Len(xdf_def.Scalars) :
              xdf_def.Scalars[i].Embedded_Address =
                  _extract_embedded(ScalarElements[i]).mmedaddress
        /\ \A i \in 1..Len(xdf_def.Constants) :
              xdf_def.Constants[i].Embedded_Address =
                  _extract_embedded(ConstantElements[i]).mmedaddress


\* C24: every call of new_unique_table_id ends: it returns an identifier,
\* or it fails because no identifier is free.
C24_IdTerminates == <>(pc \in {"returned", "exhausted"})


\* the merge gave axis k of the document the Map Values and the Header
\* Values of record r, found under the address of the axis
AttachedTo(r, k) ==
    /\ Get(xdf_in.Axes[k], "ID") = Str(T_z)
    /\ ~IsNone(Get(xdf_in.Axes[k], "Embedded_Address"))
    /\ "Header" \notin DOMAIN xdf_in.Axes[k]
    /\ "Header" \in DOMAIN xdf_def.Axes[k]
    /\ map_def[r].Map_Values # <<>>
    /\ xdf_def.Axes[k].Values = map_def[r].Map_Values
    /\ xdf_def.Axes[k].Header = map_def[r].Header_Values
    /\ ParseHex(map_def[r].XDF_mmedaddr.s)[1]
          \in {ParseHex(xdf_in.Axes[k].Embedded_Address.s)[1],
               ParseHex(xdf_in.Axes[k].Embedded_Address.s)[1] + BankSize}

\* the tables the merge added
SyntheticTables ==
    {xdf_def.Tables[t] : t \in (Len(xdf_in.Tables) + 1)..Len(xdf_def.Tables)}

\* C25: a map entry whose values the first pass attached to a z axis of the
\* document gets no synthetic Table in the second pass.
C25_PassesAgree ==
    pc = "merged" =>
        \A r \in 1..Len(map_def), k \in 1..Len(xdf_in.Axes) :
            AttachedTo(r, k) =>
                \A t \in SyntheticTables : t.Address # map_def[r].Addr


\* C26: the XDF mmedaddr of every record merge_data wrote, and with it the
\* Embedded.Address of every z axis a merge added, is the text of an integer
\* that is not negative.
C26_AddressesUnsigned ==
    /\ \A r \in 1..Len(map_def) : ParseHex(map_def[r].XDF_mmedaddr.s)[1] >= 0
    /\ pc = "merged" =>
          \A j \in 1..Len(NewEntries) :
              ParseHex(NewAxis(j, 3).Embedded_Address.s)[1] >= 0


\* C27: the Tables one call of the merge added have distinct addresses, also
\* when the map list holds an address twice.
C27_OneTablePerAddress ==
    pc = "merged" =>
        \A s, t \in (Len(xdf_in.Tables) + 1)..Len(xdf_def.Tables) :
            s # t =>
                ParseHex(xdf_def.Tables[s].Address.s) # ParseHex(xdf_def.Tables[t].Address.s)


\* C28: merge_data returns one record for every map entry after the first,
\* in map order, with the Address, the Type and the Title of the entry.
C28_OneRecordPerEntry ==
    pc = "mapped" =>
        /\ Len(map_def) = Len(map) - 1
        /\ \A i \in 1..Len(map_def) :
              /\ map_def[i].Addr = map[i + 1].Address
              /\ map_def[i].MapType = map[i + 1].Type
              /\ map_def[i].Title = map[i + 1].Title

====
